---- MODULE Spec2Model ----
(***************************************************************************)
(* Threshold classifiers, rule matchers and the health aggregator of the   *)
(* pump/motor condition-monitoring dashboards.                             *)
(*                                                                         *)
(* Vibration velocities are fixed-point integers, 1 unit = 0.001 mm/s.     *)
(* The forms enter readings in steps of 0.01 mm/s (10 units), a DE/NDE     *)
(* average therefore lies on a grid of 5 units, and every product the code *)
(* forms (0.5 x, 0.6 x, 0.8 x, 1.5 x) is an exact integer on these grids.  *)
(***************************************************************************)
EXTENDS Integers, Sequences, FiniteSets, TLC

VARIABLES
    args,       \* the arguments drawn for this run of the functions under study
    analyzer,   \* the fields of the object under study (VibrationAnalyzer, ElectricalEngine), NoObject before __init__
    calls,      \* the calls made so far, oldest first: [fn, self, args, ret]
    heap        \* the module globals ASSET_DB and ASSETS_DB, and the list objects allocated

vars == <<args, analyzer, calls, heap>>

\* Python's None where a string is expected, and where an object is expected
None == "None"

NoObject == [ class |-> "NoneType" ]

----------------------------------------------------------------------------
(* Bounds of the model *)

\* how many grid points on each side of every threshold are drawn as inputs
Delta == 1

\* the longest list of physical findings drawn
MaxIssues == 2

\* how many of the twelve measuring points carry a reading other than zero
MaxHot == 2

\* calls made in one run against the asset tables
MaxCalls == 3

----------------------------------------------------------------------------
(* Helpers *)

Max2(a, b) == IF a >= b THEN a ELSE b

Abs(a) == IF a < 0 THEN -a ELSE a

Range(f) == { f[i] : i \in DOMAIN f }

\* the forms' input step, 0.01 mm/s
Step == 10

\* resolution of a value: a DE/NDE average (v1 + v2) / 2 of two form inputs
Grid == Step \div 2

----------------------------------------------------------------------------
(* src/iso_logic.py *)

\* limits = [1.12, 2.80, 7.10]
iso_logic_limits == <<1120, 2800, 7100>>

iso_logic_get_iso_status(velocity_rms) ==
    IF velocity_rms <= iso_logic_limits[1] THEN <<"GOOD", "success">>
    ELSE IF velocity_rms <= iso_logic_limits[2] THEN <<"SATISFACTORY", "warning">>
    ELSE IF velocity_rms <= iso_logic_limits[3] THEN <<"UNSATISFACTORY", "orange">>
    ELSE <<"UNACCEPTABLE", "error">>

----------------------------------------------------------------------------
(* src/simulasi_esa.py *)

\* Limits.ISO_CLASS_II = [1.12, 2.80, 7.10]
ISO_CLASS_II == <<1120, 2800, 7100>>

\* the limits MechanicalEngine.get_iso_status reads
MechanicalEngine_limits == ISO_CLASS_II

\* the same ladder read from mechanical.py's Class II row [1.12, 2.80, 4.50]
MechanicalEngine_get_iso_status_row(val) ==
    IF val <= 1120 THEN <<"ISOZone.A", "#2ecc71">>
    ELSE IF val <= 2800 THEN <<"ISOZone.B", "#f1c40f">>
    ELSE IF val <= 4500 THEN <<"ISOZone.C", "#e67e22">>
    ELSE <<"ISOZone.D", "#e74c3c">>

MechanicalEngine_get_iso_status(val) ==
    IF val <= MechanicalEngine_limits[1] THEN <<"ISOZone.A", "#2ecc71">>
    ELSE IF val <= MechanicalEngine_limits[2] THEN <<"ISOZone.B", "#f1c40f">>
    ELSE IF val <= MechanicalEngine_limits[3] THEN <<"ISOZone.C", "#e67e22">>
    ELSE <<"ISOZone.D", "#e74c3c">>

----------------------------------------------------------------------------
(* src/modules/mechanical.py *)

MachineClasses ==
    { "Class I (Kecil <15kW)", "Class II (Medium 15-300kW)",
      "Class III (Besar >300kW Rigid)", "Class IV (Besar Soft)" }

\* get_iso_zone's table: [A/B, B/C, C/D] per machine class
limits ==
    [ c \in MachineClasses |->
        CASE c = "Class I (Kecil <15kW)" -> <<710, 1800, 4500>>
          [] c = "Class II (Medium 15-300kW)" -> <<1120, 2800, 4500>>
          [] c = "Class III (Besar >300kW Rigid)" -> <<1800, 4500, 7100>>
          [] c = "Class IV (Besar Soft)" -> <<2800, 7100, 11200>> ]

\* the ladder with the labels of the second and third branch exchanged
get_iso_zone_swapped(value, machine_class) ==
    IF machine_class \notin DOMAIN limits THEN <<"KeyError">>
    ELSE LET lim == limits[machine_class] IN
         IF value < lim[1] THEN <<"A", "New machine condition", "green">>
         ELSE IF value < lim[2] THEN <<"C", "Short-term operation allowable", "orange">>
         ELSE IF value < lim[3] THEN <<"B", "Unlimited long-term operation allowable", "yellow">>
         ELSE <<"D", "Vibration causes damage", "red">>

\* the ladder without its final else: the function falls off its end
get_iso_zone_no_else(value, machine_class) ==
    IF machine_class \notin DOMAIN limits THEN <<"KeyError">>
    ELSE LET lim == limits[machine_class] IN
         IF value < lim[1] THEN <<"A", "New machine condition", "green">>
         ELSE IF value < lim[2] THEN <<"B", "Unlimited long-term operation allowable", "yellow">>
         ELSE IF value < lim[3] THEN <<"C", "Short-term operation allowable", "orange">>
         ELSE <<None>>

\* limits[machine_class] raises KeyError for a class that is not a key
get_iso_zone(value, machine_class) ==
    IF machine_class \notin DOMAIN limits THEN <<"KeyError">>
    ELSE LET lim == limits[machine_class] IN
         IF value < lim[1] THEN <<"A", "New machine condition", "green">>
         ELSE IF value < lim[2] THEN <<"B", "Unlimited long-term operation allowable", "yellow">>
         ELSE IF value < lim[3] THEN <<"C", "Short-term operation allowable", "orange">>
         ELSE <<"D", "Vibration causes damage", "red">>

----------------------------------------------------------------------------
(* src/modules/asset_database.py *)

AssetTags == { "P-02", "733-P-103", "706-P-203" }

\* AssetSpecs records with the dataclass defaults filled in: volts and amperes in
\* tenths, power in tenths of a kW, temperature in tenths of a degree
ASSET_DB ==
    [ t \in AssetTags |->
        CASE t = "P-02" ->
               [tag |-> "P-02", name |-> "Pompa Transfer Pertalite", area |-> "FT Moutong",
                volt_rated |-> 3800, fla_rated |-> 355, phase |-> 3, power_kw |-> 185,
                rpm |-> 2900, mounting |-> "Rigid", max_temp_bearing |-> 850,
                vib_limit_warning |-> 2800, vib_limit_danger |-> 7100]
          [] t = "733-P-103" ->
               [tag |-> "733-P-103", name |-> "Pompa Booster Bio Solar", area |-> "FT Luwuk",
                volt_rated |-> 4000, fla_rated |-> 540, phase |-> 3, power_kw |-> 300,
                rpm |-> 2900, mounting |-> "Rigid", max_temp_bearing |-> 850,
                vib_limit_warning |-> 4500, vib_limit_danger |-> 7100]
          [] t = "706-P-203" ->
               [tag |-> "706-P-203", name |-> "Pompa Transfer LPG", area |-> "IT Makassar",
                volt_rated |-> 3800, fla_rated |-> 285, phase |-> 3, power_kw |-> 150,
                rpm |-> 2955, mounting |-> "Rigid", max_temp_bearing |-> 900,
                vib_limit_warning |-> 2800, vib_limit_danger |-> 7100] ]

\* simulasi_esa.py: ProtectionSettings(flc_amps, rated_volt, max_starts_hr=...) with
\* the dataclass defaults; pickups in hundredths, pickup_50n in hundredths of an ampere
ProtectionSettings(flc_amps, rated_volt, max_starts_hr) ==
    [ flc_amps |-> flc_amps, rated_volt |-> rated_volt,
      pickup_51 |-> 110, pickup_50 |-> 600, pickup_27 |-> 90, pickup_59 |-> 110,
      pickup_37 |-> 40, pickup_50n |-> 100, max_starts_hr |-> max_starts_hr ]

MechanicalSpecs(power_kw, rpm_design) ==
    [ power_kw |-> power_kw, rpm_design |-> rpm_design, mounting |-> "Rigid",
      coupling_type |-> "Flexible", bearing_temp_limit |-> 850 ]

\* simulasi_esa.py: the Asset objects by key
ASSETS_DB ==
    [ t \in AssetTags |->
        CASE t = "P-02" ->
               [tag |-> "0459599", name |-> "Pompa Pertalite", loc |-> "FT Moutong",
                mech |-> MechanicalSpecs(185, 2900),
                elec |-> ProtectionSettings(355, 3800, 4)]
          [] t = "733-P-103" ->
               [tag |-> "1041535A", name |-> "Pompa Bio Solar", loc |-> "FT Luwuk",
                mech |-> MechanicalSpecs(300, 2900),
                elec |-> ProtectionSettings(540, 4000, 3)]
          [] t = "706-P-203" ->
               [tag |-> "049-1611186", name |-> "Pompa LPG", loc |-> "IT Makassar",
                mech |-> MechanicalSpecs(150, 2955),
                elec |-> ProtectionSettings(285, 3800, 3)] ]

\* the globals as the modules define them; no list object allocated yet
InitialHeap == [ ASSET_DB |-> ASSET_DB, ASSETS_DB |-> ASSETS_DB, lists |-> <<>> ]

----------------------------------------------------------------------------
(* src/modules/vibration_diagnostics.py *)

\* "60% of the warning limit" written as a division by 0.6
VibrationAnalyzer_init_div(limit_warn, limit_trip) ==
    [ limit_warn |-> limit_warn,
      limit_trip |-> limit_trip,
      limit_zone_a |-> IF limit_warn >= 4000 THEN 2300 ELSE (limit_warn * 10) \div 6 ]

\* __init__: limit_zone_a = 2.30 if limit_warn >= 4.0 else limit_warn * 0.6
VibrationAnalyzer_init(limit_warn, limit_trip) ==
    [ limit_warn |-> limit_warn,
      limit_trip |-> limit_trip,
      limit_zone_a |-> IF limit_warn >= 4000 THEN 2300 ELSE (limit_warn * 6) \div 10 ]

\* the constructor arguments the program uses: the defaults (4.5, 7.1) or an
\* asset's vib_limit_warning / vib_limit_danger
AnalyzerConfigs == AssetTags \cup { "default" }

ConfigLimits(cfg) ==
    IF cfg = "default" THEN <<4500, 7100>>
    ELSE <<ASSET_DB[cfg].vib_limit_warning, ASSET_DB[cfg].vib_limit_danger>>

\* the C/D boundary compared with <=
determine_zone_le(self, value) ==
    IF value < self.limit_zone_a THEN "ZONE A: New machine condition"
    ELSE IF value < self.limit_warn THEN "ZONE B: Unlimited long-term operation"
    ELSE IF value <= self.limit_trip THEN "ZONE C: Short-term operation allowable"
    ELSE "ZONE D: Vibration causes damage"

determine_zone(self, value) ==
    IF value < self.limit_zone_a THEN "ZONE A: New machine condition"
    ELSE IF value < self.limit_warn THEN "ZONE B: Unlimited long-term operation"
    ELSE IF value < self.limit_trip THEN "ZONE C: Short-term operation allowable"
    ELSE "ZONE D: Vibration causes damage"

----------------------------------------------------------------------------
(* The zone classifiers under study: two calls of one classifier, the first *)
(* on args.x and the second on args.y.                                      *)

\* every threshold a classifier compares against
AllThresholds ==
    Range(iso_logic_limits) \cup Range(MechanicalEngine_limits)
    \cup UNION { Range(limits[c]) : c \in DOMAIN limits }
    \cup UNION { LET a == VibrationAnalyzer_init(ConfigLimits(cfg)[1], ConfigLimits(cfg)[2])
                 IN  { a.limit_zone_a, a.limit_warn, a.limit_trip } : cfg \in AnalyzerConfigs }

\* the values of the spec's example: 0.5, 2.0, 5.0 and 9.0 mm/s
ExampleValues == { 500, 2000, 5000, 9000 }

\* non-negative inputs: every threshold, its neighbours on the grid, the examples, zero
Values ==
    { v \in { t + k * Grid : t \in AllThresholds, k \in (0 - Delta)..Delta } : v >= 0 }
    \cup ExampleValues \cup { 0 }

ZoneInit ==
    /\ heap = InitialHeap
    /\ args \in [ x : Values, y : Values ]
    /\ analyzer = NoObject
    /\ calls = <<>>

\* the argument of the next call
NextValue == IF calls = <<>> THEN args.x ELSE args.y

\* the second call repeats the classifier (and machine class) of the first
MayCall(fn, extra) ==
    /\ Len(calls) < 2
    /\ calls # <<>> => (calls[1].fn = fn /\ calls[1].extra = extra)

Record(fn, extra, value, ret) ==
    Append(calls, [fn |-> fn, self |-> analyzer, extra |-> extra, value |-> value, ret |-> ret])

\* analyzer = VibrationAnalyzer(limit_warn, limit_trip)
NewAnalyzer ==
    /\ analyzer = NoObject /\ calls = <<>>
    /\ \E cfg \in AnalyzerConfigs :
          analyzer' = VibrationAnalyzer_init(ConfigLimits(cfg)[1], ConfigLimits(cfg)[2])
    /\ UNCHANGED <<args, calls, heap>>

CallIsoLogic ==
    /\ MayCall("iso_logic.get_iso_status", None)
    /\ calls' = Record("iso_logic.get_iso_status", None, NextValue,
                       iso_logic_get_iso_status(NextValue))
    /\ UNCHANGED <<args, analyzer, heap>>

CallMechanicalEngine ==
    /\ MayCall("MechanicalEngine.get_iso_status", None)
    /\ calls' = Record("MechanicalEngine.get_iso_status", None, NextValue,
                       MechanicalEngine_get_iso_status(NextValue))
    /\ UNCHANGED <<args, analyzer, heap>>

CallGetIsoZone ==
    /\ \E machine_class \in MachineClasses :
          /\ MayCall("mechanical.get_iso_zone", machine_class)
          /\ calls' = Record("mechanical.get_iso_zone", machine_class, NextValue,
                             get_iso_zone(NextValue, machine_class))
    /\ UNCHANGED <<args, analyzer, heap>>

CallDetermineZone ==
    /\ analyzer # NoObject
    /\ MayCall("VibrationAnalyzer.determine_zone", None)
    /\ calls' = Record("VibrationAnalyzer.determine_zone", None, NextValue,
                       <<determine_zone(analyzer, NextValue)>>)
    /\ UNCHANGED <<args, analyzer, heap>>

ZoneNext ==
    \/ NewAnalyzer
    \/ CallIsoLogic
    \/ CallMechanicalEngine
    \/ CallGetIsoZone
    \/ CallDetermineZone

ZoneSpec == ZoneInit /\ [][ZoneNext]_vars

\* the three thresholds a recorded call compared its value against
ThresholdsOf(call) ==
    CASE call.fn = "iso_logic.get_iso_status" -> iso_logic_limits
      [] call.fn = "MechanicalEngine.get_iso_status" -> MechanicalEngine_limits
      [] call.fn = "mechanical.get_iso_zone" -> limits[call.extra]
      [] call.fn = "VibrationAnalyzer.determine_zone" ->
            <<call.self.limit_zone_a, call.self.limit_warn, call.self.limit_trip>>

\* the place of a returned zone in the order A < B < C < D; 0 when it is no zone
ZoneRank(ret) ==
    LET z == ret[1] IN
    CASE z \in { "GOOD", "ISOZone.A", "A", "ZONE A: New machine condition" } -> 1
      [] z \in { "SATISFACTORY", "ISOZone.B", "B", "ZONE B: Unlimited long-term operation" } -> 2
      [] z \in { "UNSATISFACTORY", "ISOZone.C", "C", "ZONE C: Short-term operation allowable" } -> 3
      [] z \in { "UNACCEPTABLE", "ISOZone.D", "D", "ZONE D: Vibration causes damage" } -> 4
      [] OTHER -> 0

Recorded == { calls[i] : i \in DOMAIN calls }

\* C1: a value equal to the k-th threshold is put into the k-th (lower) zone,
\* by every classifier alike
OnBoundaryLowerZone ==
    \A c \in Recorded : \A k \in 1..3 :
        c.value = ThresholdsOf(c)[k] => ZoneRank(c.ret) = k

\* C2: of two calls of one classifier, the one on the smaller value does not
\* return the more severe zone
ZoneMonotonic ==
    Len(calls) = 2 /\ calls[1].value <= calls[2].value
        => ZoneRank(calls[1].ret) <= ZoneRank(calls[2].ret)

ZoneMonotonicWitness ==
    /\ Len(calls) = 2
    /\ calls[1].fn = "VibrationAnalyzer.determine_zone"
    /\ calls[1].value < calls[2].value
    /\ ZoneRank(calls[1].ret) = 2 /\ ZoneRank(calls[2].ret) = 3

\* C3: every call returns one of the four zones (it neither raises nor falls
\* off the end), and a repeated call with the same arguments returns the same
ZoneTotalDeterministic ==
    /\ \A c \in Recorded : ZoneRank(c.ret) \in 1..4
    /\ Len(calls) = 2 /\ calls[1].value = calls[2].value => calls[1].ret = calls[2].ret

ZoneTotalWitness ==
    /\ Len(calls) = 2
    /\ calls[1].fn = "mechanical.get_iso_zone"
    /\ calls[1].extra = "Class IV (Besar Soft)"
    /\ calls[1].value = calls[2].value
    /\ calls[2].value >= 11200
    /\ ZoneRank(calls[2].ret) = 4

\* C4: with the Class II thresholds, 0.5 is A/GOOD, 2.0 is B/SATISFACTORY,
\* 5.0 is C/UNSATISFACTORY and 9.0 is D/UNACCEPTABLE
ClassIIExamples ==
    \A c \in Recorded :
        /\ c.fn = "iso_logic.get_iso_status" =>
              /\ c.value = 500 => c.ret[1] = "GOOD"
              /\ c.value = 2000 => c.ret[1] = "SATISFACTORY"
              /\ c.value = 5000 => c.ret[1] = "UNSATISFACTORY"
              /\ c.value = 9000 => c.ret[1] = "UNACCEPTABLE"
        /\ c.fn = "MechanicalEngine.get_iso_status" =>
              /\ c.value = 500 => c.ret[1] = "ISOZone.A"
              /\ c.value = 2000 => c.ret[1] = "ISOZone.B"
              /\ c.value = 5000 => c.ret[1] = "ISOZone.C"
              /\ c.value = 9000 => c.ret[1] = "ISOZone.D"

ClassIIExamplesWitness ==
    /\ Len(calls) = 2
    /\ calls[1].fn = "MechanicalEngine.get_iso_status"
    /\ calls[1].value = 5000 /\ calls[1].ret[1] = "ISOZone.C"
    /\ calls[2].value = 9000 /\ calls[2].ret[1] = "ISOZone.D"

StrictlyIncreasing(t) == t[1] < t[2] /\ t[2] < t[3]

\* C5: the thresholds of every machine class of get_iso_zone's table, and the
\* triple (limit_zone_a, limit_warn, limit_trip) of an analyzer built from an
\* asset's limits, are strictly increasing
ThresholdsIncreasing ==
    /\ \A c \in Recorded :
          c.fn = "mechanical.get_iso_zone" => StrictlyIncreasing(ThresholdsOf(c))
    /\ analyzer # NoObject =>
          StrictlyIncreasing(<<analyzer.limit_zone_a, analyzer.limit_warn, analyzer.limit_trip>>)

ThresholdsIncreasingWitness ==
    /\ analyzer # NoObject
    /\ analyzer.limit_warn = ASSET_DB["P-02"].vib_limit_warning
    /\ analyzer.limit_zone_a = 1680
    /\ \E c \in Recorded : c.fn = "mechanical.get_iso_zone"

----------------------------------------------------------------------------
(* Python strings.  A string of the program is a TLA+ string; Chars gives    *)
(* its characters, on which `in` and upper() are computed.  Emoji that some  *)
(* messages start with are left out of the modelled strings.                 *)

\* BEGIN Chars
Chars(s) ==
    CASE s = "ZONE A" ->
            <<"Z","O","N","E"," ","A">>
      [] s = "ZONE C" ->
            <<"Z","O","N","E"," ","C">>
      [] s = "ZONE D" ->
            <<"Z","O","N","E"," ","D">>
      [] s = "TRIP" ->
            <<"T","R","I","P">>
      [] s = "MAJOR" ->
            <<"M","A","J","O","R">>
      [] s = "CRITICAL" ->
            <<"C","R","I","T","I","C","A","L">>
      [] s = "MINOR" ->
            <<"M","I","N","O","R">>
      [] s = "Seal" ->
            <<"S","e","a","l">>
      [] s = "Guard" ->
            <<"G","u","a","r","d">>
      [] s = "ZONE A: NEW CONDITION" ->
            <<"Z","O","N","E"," ","A",":"," ","N","E","W"," ","C","O","N","D","I","T","I","O","N">>
      [] s = "ZONE B: Unlimited" ->
            <<"Z","O","N","E"," ","B",":"," ","U","n","l","i","m","i","t","e","d">>
      [] s = "ZONE C: WARNING" ->
            <<"Z","O","N","E"," ","C",":"," ","W","A","R","N","I","N","G">>
      [] s = "ZONE D: DAMAGE" ->
            <<"Z","O","N","E"," ","D",":"," ","D","A","M","A","G","E">>
      [] s = "NORMAL" ->
            <<"N","O","R","M","A","L">>
      [] s = "ALARM" ->
            <<"A","L","A","R","M">>
      [] s = "Misalignment" ->
            <<"M","i","s","a","l","i","g","n","m","e","n","t">>
      [] s = "Unbalance" ->
            <<"U","n","b","a","l","a","n","c","e">>
      [] s = "Soft Foot" ->
            <<"S","o","f","t"," ","F","o","o","t">>
      [] s = "Bearing" ->
            <<"B","e","a","r","i","n","g">>
      [] s = "Looseness" ->
            <<"L","o","o","s","e","n","e","s","s">>
      [] s = "Bent Shaft" ->
            <<"B","e","n","t"," ","S","h","a","f","t">>
      [] s = "Kavitasi" ->
            <<"K","a","v","i","t","a","s","i">>
      [] s = "Flow" ->
            <<"F","l","o","w">>
      [] s = "Overheat" ->
            <<"O","v","e","r","h","e","a","t">>
      [] s = "Volt" ->
            <<"V","o","l","t">>
      [] s = "Curr" ->
            <<"C","u","r","r">>
      [] s = "MAJOR: Baseplate retak" ->
            <<"M","A","J","O","R",":"," ","B","a","s","e","p","l","a","t","e"," ","r","e","t","a","k">>
      [] s = "Minor: Seal rembes" ->
            <<"M","i","n","o","r",":"," ","S","e","a","l"," ","r","e","m","b","e","s">>
      [] s = "Critical: Guard kopling lepas" ->
            <<"C","r","i","t","i","c","a","l",":"," ","G","u","a","r","d"," ","k","o","p","l","i","n","g"," ","l","e","p","a","s">>
      [] s = "Housekeeping kotor" ->
            <<"H","o","u","s","e","k","e","e","p","i","n","g"," ","k","o","t","o","r">>
      [] s = "MISALIGNMENT: Vibrasi Axial Dominan. Cek Kopling & Alignment." ->
            <<"M","I","S","A","L","I","G","N","M","E","N","T",":"," ","V","i","b","r","a","s","i"," ","A","x","i","a","l"," ","D","o","m","i","n","a","n","."," ","C","e","k"," ","K","o","p","l","i","n","g"," ","&"," ","A","l","i","g","n","m","e","n","t",".">>
      [] s = "UNBALANCE: Vibrasi Radial (Horiz) Dominan. Cek Kotoran di Kipas/Impeller." ->
            <<"U","N","B","A","L","A","N","C","E",":"," ","V","i","b","r","a","s","i"," ","R","a","d","i","a","l"," ","(","H","o","r","i","z",")"," ","D","o","m","i","n","a","n","."," ","C","e","k"," ","K","o","t","o","r","a","n"," ","d","i"," ","K","i","p","a","s","/","I","m","p","e","l","l","e","r",".">>
      [] s = "LOOSENESS / SOFT FOOT: Vibrasi Vertical Dominan. Cek Baut Pondasi." ->
            <<"L","O","O","S","E","N","E","S","S"," ","/"," ","S","O","F","T"," ","F","O","O","T",":"," ","V","i","b","r","a","s","i"," ","V","e","r","t","i","c","a","l"," ","D","o","m","i","n","a","n","."," ","C","e","k"," ","B","a","u","t"," ","P","o","n","d","a","s","i",".">>
      [] s = "DE" ->
            <<"D","E">>
      [] s = "Pump NDE" ->
            <<"P","u","m","p"," ","N","D","E">>
      [] s = "Pump DE" ->
            <<"P","u","m","p"," ","D","E">>
      [] s = "Motor DE" ->
            <<"M","o","t","o","r"," ","D","E">>
      [] s = "Motor NDE" ->
            <<"M","o","t","o","r"," ","N","D","E">>
      [] s = "MISALIGNMENT" ->
            <<"M","I","S","A","L","I","G","N","M","E","N","T">>
      [] s = "**MISALIGNMENT (Ref: TKI C-017):** Dominan Axial pada sisi DE. Cek kelurusan kopling." ->
            <<"*","*","M","I","S","A","L","I","G","N","M","E","N","T"," ","(","R","e","f",":"," ","T","K","I"," ","C","-","0","1","7",")",":","*","*"," ","D","o","m","i","n","a","n"," ","A","x","i","a","l"," ","p","a","d","a"," ","s","i","s","i"," ","D","E","."," ","C","e","k"," ","k","e","l","u","r","u","s","a","n"," ","k","o","p","l","i","n","g",".">>
      [] s = "**UNBALANCE (Ref: TKI C-017):** Dominan Radial. Cek kebersihan impeller/rotor." ->
            <<"*","*","U","N","B","A","L","A","N","C","E"," ","(","R","e","f",":"," ","T","K","I"," ","C","-","0","1","7",")",":","*","*"," ","D","o","m","i","n","a","n"," ","R","a","d","i","a","l","."," ","C","e","k"," ","k","e","b","e","r","s","i","h","a","n"," ","i","m","p","e","l","l","e","r","/","r","o","t","o","r",".">>
      [] s = "**LOOSENESS (Ref: TKI C-017):** Dominan Vertikal. Cek baut pondasi / soft foot." ->
            <<"*","*","L","O","O","S","E","N","E","S","S"," ","(","R","e","f",":"," ","T","K","I"," ","C","-","0","1","7",")",":","*","*"," ","D","o","m","i","n","a","n"," ","V","e","r","t","i","k","a","l","."," ","C","e","k"," ","b","a","u","t"," ","p","o","n","d","a","s","i"," ","/"," ","s","o","f","t"," ","f","o","o","t",".">>
      [] s = "**BEARING/FLOW (Ref: TKI C-017):** Vibrasi tinggi di ujung pompa (NDE)." ->
            <<"*","*","B","E","A","R","I","N","G","/","F","L","O","W"," ","(","R","e","f",":"," ","T","K","I"," ","C","-","0","1","7",")",":","*","*"," ","V","i","b","r","a","s","i"," ","t","i","n","g","g","i"," ","d","i"," ","u","j","u","n","g"," ","p","o","m","p","a"," ","(","N","D","E",")",".">>
      [] s = "ZONE A: New machine condition" ->
            <<"Z","O","N","E"," ","A",":"," ","N","e","w"," ","m","a","c","h","i","n","e"," ","c","o","n","d","i","t","i","o","n">>
      [] s = "ZONE B: Unlimited long-term operation" ->
            <<"Z","O","N","E"," ","B",":"," ","U","n","l","i","m","i","t","e","d"," ","l","o","n","g","-","t","e","r","m"," ","o","p","e","r","a","t","i","o","n">>
      [] s = "ZONE C: Short-term operation allowable" ->
            <<"Z","O","N","E"," ","C",":"," ","S","h","o","r","t","-","t","e","r","m"," ","o","p","e","r","a","t","i","o","n"," ","a","l","l","o","w","a","b","l","e">>
      [] s = "ZONE D: Vibration causes damage" ->
            <<"Z","O","N","E"," ","D",":"," ","V","i","b","r","a","t","i","o","n"," ","c","a","u","s","e","s"," ","d","a","m","a","g","e">>
      [] s = "BENT SHAFT (Indikasi): Vibrasi Axial Tinggi di kedua sisi." ->
            <<"B","E","N","T"," ","S","H","A","F","T"," ","(","I","n","d","i","k","a","s","i",")",":"," ","V","i","b","r","a","s","i"," ","A","x","i","a","l"," ","T","i","n","g","g","i"," ","d","i"," ","k","e","d","u","a"," ","s","i","s","i",".">>
      [] s = "Pump DE Seal" ->
            <<"P","u","m","p"," ","D","E"," ","S","e","a","l">>

\* every string of the model
AllStrings ==
    { "ZONE A",
      "ZONE C",
      "ZONE D",
      "TRIP",
      "MAJOR",
      "CRITICAL",
      "MINOR",
      "Seal",
      "Guard",
      "ZONE A: NEW CONDITION",
      "ZONE B: Unlimited",
      "ZONE C: WARNING",
      "ZONE D: DAMAGE",
      "NORMAL",
      "ALARM",
      "Misalignment",
      "Unbalance",
      "Soft Foot",
      "Bearing",
      "Looseness",
      "Bent Shaft",
      "Kavitasi",
      "Flow",
      "Overheat",
      "Volt",
      "Curr",
      "MAJOR: Baseplate retak",
      "Minor: Seal rembes",
      "Critical: Guard kopling lepas",
      "Housekeeping kotor",
      "MISALIGNMENT: Vibrasi Axial Dominan. Cek Kopling & Alignment.",
      "UNBALANCE: Vibrasi Radial (Horiz) Dominan. Cek Kotoran di Kipas/Impeller.",
      "LOOSENESS / SOFT FOOT: Vibrasi Vertical Dominan. Cek Baut Pondasi.",
      "DE",
      "Pump NDE",
      "Pump DE",
      "Motor DE",
      "Motor NDE",
      "MISALIGNMENT",
      "**MISALIGNMENT (Ref: TKI C-017):** Dominan Axial pada sisi DE. Cek kelurusan kopling.",
      "**UNBALANCE (Ref: TKI C-017):** Dominan Radial. Cek kebersihan impeller/rotor.",
      "**LOOSENESS (Ref: TKI C-017):** Dominan Vertikal. Cek baut pondasi / soft foot.",
      "**BEARING/FLOW (Ref: TKI C-017):** Vibrasi tinggi di ujung pompa (NDE).",
      "ZONE A: New machine condition",
      "ZONE B: Unlimited long-term operation",
      "ZONE C: Short-term operation allowable",
      "ZONE D: Vibration causes damage",
      "BENT SHAFT (Indikasi): Vibrasi Axial Tinggi di kedua sisi.",
      "Pump DE Seal" }

\* END Chars

\* needle in hay, on character sequences: some slice of hay equals needle
SeqIn(needle, hay) ==
    \E i \in 1..(Len(hay) - Len(needle) + 1) : SubSeq(hay, i, i + Len(needle) - 1) = needle

LowerCase ==
    << "a","b","c","d","e","f","g","h","i","j","k","l","m",
       "n","o","p","q","r","s","t","u","v","w","x","y","z" >>

UpperCase ==
    << "A","B","C","D","E","F","G","H","I","J","K","L","M",
       "N","O","P","Q","R","S","T","U","V","W","X","Y","Z" >>

UpperOfChar ==
    [ c \in Range(LowerCase) |-> UpperCase[CHOOSE k \in DOMAIN LowerCase : LowerCase[k] = c] ]

\* str.upper() on a character sequence
Upper(cs) ==
    [ i \in DOMAIN cs |-> IF cs[i] \in DOMAIN UpperOfChar THEN UpperOfChar[cs[i]] ELSE cs[i] ]

\* the characters of every string, and of its upper()
CharsOf == [ s \in AllStrings |-> Chars(s) ]

UpperOf == [ s \in AllStrings |-> Upper(Chars(s)) ]

\* needle in hay
PyIn(needle, hay) == SeqIn(CharsOf[needle], CharsOf[hay])

\* needle in hay.upper()
PyInUpper(needle, hay) == SeqIn(CharsOf[needle], UpperOf[hay])

\* needle.upper() in hay.upper()
PyUpperInUpper(needle, hay) == SeqIn(UpperOf[needle], UpperOf[hay])

\* list(set(...)): the lists that hold the elements of a set, each once, in any order
RECURSIVE Perms(_)
Perms(S) ==
    IF S = {} THEN { <<>> }
    ELSE UNION { { <<x>> \o p : p \in Perms(S \ { x }) } : x \in S }

\* x in list
InList(x, list) == \E i \in DOMAIN list : list[i] = x

----------------------------------------------------------------------------
(* src/modules/health_logic.py.  Temperatures are fixed-point, 1 unit = 0.1 C *)

\* if temp_max > 85.0
OVERHEAT_LIMIT == 850

\* knowledge_base, in insertion order: keyword -> (action, standard)
knowledge_base ==
    << [keyword |-> "Misalignment", std |-> "API 686 Ch. 4 (Alignment)",
        action |-> "Lakukan Laser Alignment ulang (Toleransi 0.05mm). Cek shimming."],
       [keyword |-> "Unbalance", std |-> "ISO 1940-1 (Balancing)",
        action |-> "Lakukan Balancing Impeller/Rotor di workshop (Grade G6.3/G2.5)."],
       [keyword |-> "Soft Foot", std |-> "API 686 Ch. 5 (Mounting)",
        action |-> "Cek kekencangan baut kaki motor. Perbaiki shim jika ada celah >0.05mm."],
       [keyword |-> "Bearing", std |-> "SKF General Catalogue / OEM",
        action |-> "Jadwalkan penggantian Bearing (DE/NDE). Cek housing fit."],
       [keyword |-> "Looseness", std |-> "API 686 Ch. 5",
        action |-> "Kencangkan seluruh baut pondasi & baseplate. Cek keretakan grouting."],
       [keyword |-> "Bent Shaft", std |-> "API 610 (Pump Shaft Runout)",
        action |-> "Cek run-out poros dengan Dial Indicator (Max 0.05mm)."],
       [keyword |-> "Kavitasi", std |-> "API 610 (Centrifugal Pumps)",
        action |-> "Cek NPSH Available. Pastikan valve suction terbuka 100%. Cek strainer buntu."],
       [keyword |-> "Flow", std |-> "API 610 (Operating Region)",
        action |-> "Atur bukaan valve discharge agar masuk ke range operasional (BEP)."],
       [keyword |-> "Overheat", std |-> "NEMA MG-1 / IEEE 1415",
        action |-> "Cek sistem pendingin (Fan/Sirip). Pastikan tidak Overload."],
       [keyword |-> "Seal", std |-> "API 682 (Sealing Systems)",
        action |-> "Ganti Mechanical Seal. Cek sistem flushing."],
       [keyword |-> "Guard", std |-> "OSHA / Safety Regulation",
        action |-> "Pasang kembali Coupling Guard sesuai standar safety."],
       [keyword |-> "Volt", std |-> "NEMA MG-1 / ANSI C84.1",
        action |-> "Cek tegangan input dari panel/PLN. Pastikan unbalance < 3%."],
       [keyword |-> "Curr", std |-> "NEMA MG-1",
        action |-> "Cek beban motor. Pastikan tidak melebihi FLA."] >>

\* the inner loop over knowledge_base for one diagnosis, from entry k on
RECURSIVE kb_actions(_, _, _)
kb_actions(diag, k, recommendations) ==
    IF k > Len(knowledge_base) THEN recommendations
    ELSE LET e == knowledge_base[k] IN
         kb_actions(diag, k + 1,
             IF PyUpperInUpper(e.keyword, diag) /\ ~InList(e.action, recommendations)
             THEN Append(recommendations, e.action)
             ELSE recommendations)

\* for diag in tech_diagnoses: the recommendations it adds
RECURSIVE diag_recommendations(_, _)
diag_recommendations(tech_diagnoses, recommendations) ==
    IF tech_diagnoses = <<>> THEN recommendations
    ELSE diag_recommendations(Tail(tech_diagnoses),
                              kb_actions(Head(tech_diagnoses), 1, recommendations))

\* the standards the diagnoses add to standards_used
diag_standards(tech_diagnoses) ==
    { knowledge_base[k].std :
        k \in { n \in DOMAIN knowledge_base :
                  \E i \in DOMAIN tech_diagnoses :
                      PyUpperInUpper(knowledge_base[n].keyword, tech_diagnoses[i]) } }

\* what one physical finding adds to severity
issue_severity(issue) ==
    IF PyInUpper("MAJOR", issue) \/ PyInUpper("CRITICAL", issue) THEN 5
    ELSE IF PyInUpper("MINOR", issue) THEN 1
    ELSE 0

RECURSIVE issues_severity(_)
issues_severity(physical_issues) ==
    IF physical_issues = <<>> THEN 0
    ELSE issue_severity(Head(physical_issues)) + issues_severity(Tail(physical_issues))

\* the overheat test written with >=
health_severity_ge(vib_status, elec_status, temp_max, physical_issues) ==
    (IF PyIn("ZONE D", vib_status) THEN 3 ELSE IF PyIn("ZONE C", vib_status) THEN 1 ELSE 0)
    + (IF PyIn("TRIP", elec_status) THEN 3 ELSE 0)
    + (IF temp_max >= OVERHEAT_LIMIT THEN 3 ELSE 0)
    + issues_severity(physical_issues)

\* the value of the local `severity` when the final bucket is chosen
health_severity(vib_status, elec_status, temp_max, physical_issues) ==
    (IF PyIn("ZONE D", vib_status) THEN 3 ELSE IF PyIn("ZONE C", vib_status) THEN 1 ELSE 0)
    + (IF PyIn("TRIP", elec_status) THEN 3 ELSE 0)
    + (IF temp_max > OVERHEAT_LIMIT THEN 3 ELSE 0)
    + issues_severity(physical_issues)

BAD == [ status |-> "BAD / DANGER", color |-> "#e74c3c",
         desc |-> "KONDISI KRITIS - STOP OPERASI",
         action |-> "SEGERA LAKUKAN PERBAIKAN (Lihat Rekomendasi di Bawah)" ]

FAIR == [ status |-> "FAIR / WARNING", color |-> "#f1c40f",
          desc |-> "PERLU MONITORING KETAT",
          action |-> "JADWALKAN MAINTENANCE (Planned Work Order)" ]

GOOD == [ status |-> "GOOD / PRIMA", color |-> "#2ecc71",
          desc |-> "SIAP OPERASI",
          action |-> "LANJUTKAN OPERASI RUTIN" ]

\* the first cut-off written with >
health_bucket_gt(severity) ==
    IF severity > 3 THEN BAD ELSE IF severity >= 1 THEN FAIR ELSE GOOD

\* 5. KESIMPULAN FINAL: status, color, desc, final_action
health_bucket(severity) ==
    IF severity >= 3 THEN BAD ELSE IF severity >= 1 THEN FAIR ELSE GOOD

issue_counted(issue) == issue_severity(issue) > 0

\* The returned dict.  A formatted string is the tuple of its parts.  "standards"
\* is list(standards_used), a list in no determined order: it is kept as the set
\* of its elements.
assess_overall_health(vib_status, elec_status, temp_max, physical_issues, tech_diagnoses) ==
    LET severity == health_severity(vib_status, elec_status, temp_max, physical_issues)
        bucket == health_bucket(severity)
        vib_reasons ==
            IF PyIn("ZONE D", vib_status) THEN << <<"Vibrasi KRITIS (", vib_status, ")">> >>
            ELSE IF PyIn("ZONE C", vib_status) THEN << <<"Vibrasi TINGGI (", vib_status, ")">> >>
            ELSE <<>>
        vib_standards ==
            IF PyIn("ZONE D", vib_status) \/ PyIn("ZONE C", vib_status)
            THEN { "ISO 10816-3 (Vibration Severity)" }
            ELSE IF PyIn("ZONE A", vib_status) THEN { "ISO 10816-3 (New Machine Condition)" }
            ELSE {}
        diag_reasons == [ i \in DOMAIN tech_diagnoses |-> <<tech_diagnoses[i]>> ]
        trip == PyIn("TRIP", elec_status)
        counted == SelectSeq(physical_issues, issue_counted)
        issue_reasons == [ i \in DOMAIN counted |-> <<"Fisik: ", counted[i]>> ]
        issue_standards ==
            (IF \E i \in DOMAIN physical_issues : PyIn("Seal", physical_issues[i])
             THEN { "API 682" } ELSE {})
            \cup (IF \E i \in DOMAIN physical_issues : PyIn("Guard", physical_issues[i])
                  THEN { "OSHA Safety" } ELSE {})
        recs_diag == diag_recommendations(tech_diagnoses, <<>>)
        recs_trip == IF trip THEN Append(recs_diag, "Cek Panel Elektrikal & Kabel Power.")
                     ELSE recs_diag
    IN  [ status |-> bucket.status,
          color |-> bucket.color,
          desc |-> bucket.desc,
          action |-> bucket.action,
          reasons |-> vib_reasons \o diag_reasons
                      \o (IF trip THEN << <<"Elektrikal TRIP">> >> ELSE <<>>) \o issue_reasons,
          recommendations |->
              IF bucket = GOOD /\ recs_trip = <<>>
              THEN <<"Pertahankan kondisi operasi.">> ELSE recs_trip,
          standards |-> vib_standards \cup diag_standards(tech_diagnoses) \cup issue_standards ]

----------------------------------------------------------------------------
(* The aggregator under study: one call on the drawn arguments *)

\* global_status strings of VibrationAnalyzer.generate_full_report
VibStatuses == { "ZONE A: NEW CONDITION", "ZONE B: Unlimited", "ZONE C: WARNING", "ZONE D: DAMAGE" }

ElecStatuses == { "NORMAL", "ALARM", "TRIP" }

TempValues ==
    { OVERHEAT_LIMIT + k : k \in (0 - Delta)..Delta } \cup { 600 }

PhysicalIssues ==
    { "MAJOR: Baseplate retak", "Minor: Seal rembes",
      "Critical: Guard kopling lepas", "Housekeeping kotor" }

IssueLists == UNION { [ 1..n -> PhysicalIssues ] : n \in 0..MaxIssues }

\* causes lists of VibrationAnalyzer.diagnose_root_cause
DiagnosisLists ==
    { <<>>,
      <<"MISALIGNMENT: Vibrasi Axial Dominan. Cek Kopling & Alignment.">>,
      <<"LOOSENESS / SOFT FOOT: Vibrasi Vertical Dominan. Cek Baut Pondasi.">>,
      <<"MISALIGNMENT: Vibrasi Axial Dominan. Cek Kopling & Alignment.",
        "UNBALANCE: Vibrasi Radial (Horiz) Dominan. Cek Kotoran di Kipas/Impeller.">> }

HealthInit ==
    /\ heap = InitialHeap
    /\ args \in [ vib_status : VibStatuses, elec_status : ElecStatuses,
                  temp_max : TempValues, physical_issues : IssueLists,
                  tech_diagnoses : DiagnosisLists ]
    /\ analyzer = NoObject
    /\ calls = <<>>

CallAssessOverallHealth ==
    /\ calls = <<>>
    /\ calls' = << [ fn |-> "assess_overall_health",
                     severity |-> health_severity(args.vib_status, args.elec_status,
                                                  args.temp_max, args.physical_issues),
                     ret |-> assess_overall_health(args.vib_status, args.elec_status,
                                                   args.temp_max, args.physical_issues,
                                                   args.tech_diagnoses) ] >>
    /\ UNCHANGED <<args, analyzer, heap>>

HealthNext == CallAssessOverallHealth

HealthSpec == HealthInit /\ [][HealthNext]_vars

\* C6: the status is BAD / DANGER exactly when the score is >= 3, FAIR / WARNING
\* exactly when it is 1 or 2, GOOD / PRIMA exactly when it is 0
BucketCutoffs ==
    \A i \in DOMAIN calls :
        LET c == calls[i] IN
        /\ c.ret.status \in { "BAD / DANGER", "FAIR / WARNING", "GOOD / PRIMA" }
        /\ c.ret.status = "BAD / DANGER" <=> c.severity >= 3
        /\ c.ret.status = "FAIR / WARNING" <=> c.severity \in { 1, 2 }
        /\ c.ret.status = "GOOD / PRIMA" <=> c.severity = 0

BucketCutoffsWitness ==
    /\ calls # <<>>
    /\ calls[1].severity = 3
    /\ calls[1].ret.status = "BAD / DANGER"

\* how many entries of a list satisfy a test
Count(list, Test(_)) == Cardinality({ i \in DOMAIN list : Test(list[i]) })

IsMajor(issue) == PyInUpper("MAJOR", issue)

IsMinor(issue) == PyInUpper("MINOR", issue)

IsMajorOrCritical(issue) == PyInUpper("MAJOR", issue) \/ PyInUpper("CRITICAL", issue)

IsMinorOnly(issue) == PyInUpper("MINOR", issue) /\ ~IsMajorOrCritical(issue)

\* C7 as stated: the score is +3 for ZONE D, +3 for TRIP, +3 for temp_max above
\* the limit, +5 per major finding, +1 per minor finding, and nothing else
SeverityOriginalWeights ==
    \A i \in DOMAIN calls :
        calls[i].severity =
            (IF PyIn("ZONE D", args.vib_status) THEN 3 ELSE 0)
            + (IF PyIn("TRIP", args.elec_status) THEN 3 ELSE 0)
            + (IF args.temp_max > OVERHEAT_LIMIT THEN 3 ELSE 0)
            + 5 * Count(args.physical_issues, IsMajor)
            + Count(args.physical_issues, IsMinor)

\* C7 as amended: the weights above, and +1 when the vibration status is ZONE C;
\* a finding counts +5 when its upper-cased text contains MAJOR or CRITICAL, and +1
\* when it contains MINOR and neither of them
SeverityWeights ==
    \A i \in DOMAIN calls :
        calls[i].severity =
            (IF PyIn("ZONE D", args.vib_status) THEN 3 ELSE 0)
            + (IF PyIn("ZONE C", args.vib_status) /\ ~PyIn("ZONE D", args.vib_status)
               THEN 1 ELSE 0)
            + (IF PyIn("TRIP", args.elec_status) THEN 3 ELSE 0)
            + (IF args.temp_max > OVERHEAT_LIMIT THEN 3 ELSE 0)
            + 5 * Count(args.physical_issues, IsMajorOrCritical)
            + Count(args.physical_issues, IsMinorOnly)

SeverityWeightsWitness ==
    /\ calls # <<>>
    /\ args.vib_status = "ZONE C: WARNING"
    /\ args.elec_status = "TRIP"
    /\ args.temp_max = OVERHEAT_LIMIT
    /\ args.physical_issues = <<"Critical: Guard kopling lepas", "Minor: Seal rembes">>
    /\ calls[1].severity = 10

----------------------------------------------------------------------------
(* src/simulasi_esa.py: MechanicalEngine.analyze_root_cause *)

\* the twelve VibrationReading points, in the order main() lists them
Points ==
    << [location |-> "Motor NDE", axis |-> "Horizontal"],
       [location |-> "Motor NDE", axis |-> "Vertical"],
       [location |-> "Motor NDE", axis |-> "Axial"],
       [location |-> "Motor DE", axis |-> "Horizontal"],
       [location |-> "Motor DE", axis |-> "Vertical"],
       [location |-> "Motor DE", axis |-> "Axial"],
       [location |-> "Pump DE", axis |-> "Horizontal"],
       [location |-> "Pump DE", axis |-> "Vertical"],
       [location |-> "Pump DE", axis |-> "Axial"],
       [location |-> "Pump NDE", axis |-> "Horizontal"],
       [location |-> "Pump NDE", axis |-> "Vertical"],
       [location |-> "Pump NDE", axis |-> "Axial"] >>

\* max(r.value for r in rs), for a non-empty list
MaxValue(rs) == CHOOSE m \in { rs[i].value : i \in DOMAIN rs } :
                    \A i \in DOMAIN rs : rs[i].value <= m

T_MISALIGNMENT ==
    "**MISALIGNMENT (Ref: TKI C-017):** Dominan Axial pada sisi DE. Cek kelurusan kopling."

T_UNBALANCE ==
    "**UNBALANCE (Ref: TKI C-017):** Dominan Radial. Cek kebersihan impeller/rotor."

T_LOOSENESS ==
    "**LOOSENESS (Ref: TKI C-017):** Dominan Vertikal. Cek baut pondasi / soft foot."

T_BEARING ==
    "**BEARING/FLOW (Ref: TKI C-017):** Vibrasi tinggi di ujung pompa (NDE)."

\* problem_points taken with >= instead of >
esa_causes_ge(readings, warning_limit) ==
    LET problem_points == SelectSeq(readings, LAMBDA r : r.value >= warning_limit)
        high_horiz == SelectSeq(problem_points, LAMBDA r : r.axis = "Horizontal")
        high_axial == SelectSeq(problem_points, LAMBDA r : r.axis = "Axial")
    IN  IF problem_points = <<>> THEN <<>>
        ELSE (IF \E i \in DOMAIN problem_points :
                    /\ problem_points[i].axis = "Axial"
                    /\ PyIn("DE", problem_points[i].location)
                    /\ problem_points[i].value > warning_limit
              THEN <<T_MISALIGNMENT>> ELSE <<>>)
             \o (IF /\ high_horiz # <<>>
                    /\ (high_axial = <<>> \/ MaxValue(high_horiz) > MaxValue(high_axial))
                 THEN <<T_UNBALANCE>> ELSE <<>>)
             \o (IF \E i \in DOMAIN problem_points :
                       /\ problem_points[i].axis = "Vertical"
                       /\ problem_points[i].value > warning_limit
                 THEN <<T_LOOSENESS>> ELSE <<>>)
             \o (IF \E i \in DOMAIN problem_points :
                       /\ PyIn("Pump NDE", problem_points[i].location)
                       /\ problem_points[i].value > warning_limit
                 THEN <<T_BEARING>> ELSE <<>>)

\* the misalignment rule firing only when no horizontal reading is as high
esa_causes_dominant(readings, warning_limit) ==
    LET problem_points == SelectSeq(readings, LAMBDA r : r.value > warning_limit)
        high_horiz == SelectSeq(problem_points, LAMBDA r : r.axis = "Horizontal")
        high_axial == SelectSeq(problem_points, LAMBDA r : r.axis = "Axial")
    IN  IF problem_points = <<>> THEN <<>>
        ELSE (IF /\ \E i \in DOMAIN problem_points :
                       /\ problem_points[i].axis = "Axial"
                       /\ PyIn("DE", problem_points[i].location)
                       /\ problem_points[i].value > warning_limit
                 /\ (high_horiz = <<>> \/ MaxValue(high_axial) > MaxValue(high_horiz))
              THEN <<T_MISALIGNMENT>> ELSE <<>>)
             \o (IF /\ high_horiz # <<>>
                    /\ (high_axial = <<>> \/ MaxValue(high_horiz) > MaxValue(high_axial))
                 THEN <<T_UNBALANCE>> ELSE <<>>)
             \o (IF \E i \in DOMAIN problem_points :
                       /\ problem_points[i].axis = "Vertical"
                       /\ problem_points[i].value > warning_limit
                 THEN <<T_LOOSENESS>> ELSE <<>>)
             \o (IF \E i \in DOMAIN problem_points :
                       /\ PyIn("Pump NDE", problem_points[i].location)
                       /\ problem_points[i].value > warning_limit
                 THEN <<T_BEARING>> ELSE <<>>)

\* the list `causes` when the function reaches its return
esa_causes(readings, warning_limit) ==
    LET problem_points == SelectSeq(readings, LAMBDA r : r.value > warning_limit)
        high_horiz == SelectSeq(problem_points, LAMBDA r : r.axis = "Horizontal")
        high_axial == SelectSeq(problem_points, LAMBDA r : r.axis = "Axial")
    IN  IF problem_points = <<>> THEN <<>>
        ELSE (IF \E i \in DOMAIN problem_points :
                    /\ problem_points[i].axis = "Axial"
                    /\ PyIn("DE", problem_points[i].location)
                    /\ problem_points[i].value > warning_limit
              THEN <<T_MISALIGNMENT>> ELSE <<>>)
             \o (IF /\ high_horiz # <<>>
                    /\ (high_axial = <<>> \/ MaxValue(high_horiz) > MaxValue(high_axial))
                 THEN <<T_UNBALANCE>> ELSE <<>>)
             \o (IF \E i \in DOMAIN problem_points :
                       /\ problem_points[i].axis = "Vertical"
                       /\ problem_points[i].value > warning_limit
                 THEN <<T_LOOSENESS>> ELSE <<>>)
             \o (IF \E i \in DOMAIN problem_points :
                       /\ PyIn("Pump NDE", problem_points[i].location)
                       /\ problem_points[i].value > warning_limit
                 THEN <<T_BEARING>> ELSE <<>>)

\* the possible returns: [] on the early return, else list(set(causes)) in any order
MechanicalEngine_analyze_root_cause(readings, warning_limit) ==
    Perms(Range(esa_causes(readings, warning_limit)))

----------------------------------------------------------------------------
(* src/modules/mechanical.py: analyze_root_cause *)

\* limits_map of app(): the warning threshold (B/C boundary) per machine class
limits_map ==
    [ c \in MachineClasses |->
        CASE c = "Class I (Kecil <15kW)" -> 1800
          [] c = "Class II (Medium 15-300kW)" -> 2800
          [] c = "Class III (Besar >300kW Rigid)" -> 4500
          [] c = "Class IV (Besar Soft)" -> 7100 ]

\* warning_threshold * 0.8 as binary floating point computes it, in units of
\* 0.0005 mm/s: 1.8 * 0.8 = 1.4400000000000002 and 2.8 * 0.8 = 2.2399999999999998
\* are one step off the decimal product, 4.5 * 0.8 = 3.6 and 7.1 * 0.8 = 5.68 are not
Times08(warning_threshold) ==
    2 * ((warning_threshold * 4) \div 5)
    + (CASE warning_threshold = 1800 -> 1
         [] warning_threshold = 2800 -> 0 - 1
         [] OTHER -> 0)

D_NORMAL == "Kondisi Normal"

D_MISALIGNMENT == "Angular Misalignment (Poros Miring)"

D_UNBALANCE == "Unbalance (Massa Tidak Seimbang)"

D_LOOSENESS == "Mechanical Looseness / Soft Foot"

D_BEARING == "Indikasi Kerusakan Bearing / Kavitasi"

\* rule 1 without its comparison against 0.8 x threshold
mech_rule1_ratio(h_val, v_val, a_val, warning_threshold) ==
    2 * a_val > Max2(h_val, v_val)

\* RULE 1: axial above half the highest radial and above 0.8 x threshold
mech_rule1(h_val, v_val, a_val, warning_threshold) ==
    2 * a_val > Max2(h_val, v_val) /\ 2 * a_val > Times08(warning_threshold)

\* RULE 2: a radial value above the threshold, axial below half the highest radial
mech_rule2(h_val, v_val, a_val, warning_threshold) ==
    /\ (h_val > warning_threshold \/ v_val > warning_threshold)
    /\ 2 * a_val < Max2(h_val, v_val)

\* RULE 3: vertical above 1.5 x horizontal and above the threshold
mech_rule3(h_val, v_val, a_val, warning_threshold) ==
    2 * v_val > 3 * h_val /\ v_val > warning_threshold

\* rule 3 appending the diagnosis of rule 1 (a copied append line)
mech_diagnosa_copy(h_val, v_val, a_val, warning_threshold) ==
    (IF mech_rule1(h_val, v_val, a_val, warning_threshold) THEN <<D_MISALIGNMENT>> ELSE <<>>)
    \o (IF mech_rule2(h_val, v_val, a_val, warning_threshold) THEN <<D_UNBALANCE>> ELSE <<>>)
    \o (IF mech_rule3(h_val, v_val, a_val, warning_threshold) THEN <<D_MISALIGNMENT>> ELSE <<>>)

\* the list diagnosa after rules 1 to 3
mech_diagnosa(h_val, v_val, a_val, warning_threshold) ==
    (IF mech_rule1(h_val, v_val, a_val, warning_threshold) THEN <<D_MISALIGNMENT>> ELSE <<>>)
    \o (IF mech_rule2(h_val, v_val, a_val, warning_threshold) THEN <<D_UNBALANCE>> ELSE <<>>)
    \o (IF mech_rule3(h_val, v_val, a_val, warning_threshold) THEN <<D_LOOSENESS>> ELSE <<>>)

\* the list rekomendasi after rules 1 to 3
mech_rekomendasi(h_val, v_val, a_val, warning_threshold) ==
    (IF mech_rule1(h_val, v_val, a_val, warning_threshold)
     THEN << "Cek alignment kopling (Laser/Dial). Pastikan offset < 0.05mm.",
             "Cek 'Pipe Strain' (Pipa menekan pompa)." >> ELSE <<>>)
    \o (IF mech_rule2(h_val, v_val, a_val, warning_threshold)
        THEN << "Cek fisik impeller/kipas motor dari kotoran/kerak.",
                "Lakukan balancing ulang (Standar G2.5/G6.3)." >> ELSE <<>>)
    \o (IF mech_rule3(h_val, v_val, a_val, warning_threshold)
        THEN << "Kencangkan baut angkur (Anchor Bolt).",
                "Cek kerataan kaki motor (Soft foot) dengan feeler gauge." >> ELSE <<>>)

\* RULE 4, reached when rules 1 to 3 left diagnosa empty
mech_fallback ==
    << <<D_BEARING>>,
       << "Cek lubrikasi (Greasing).", "Analisa suara bearing (Stetoskop).",
          "Cek tekanan suction (Kavitasi)." >> >>

\* the function without its early return for values below the threshold
mechanical_analyze_root_cause_no_return(h_val, v_val, a_val, warning_threshold) ==
    IF mech_diagnosa(h_val, v_val, a_val, warning_threshold) = <<>>
    THEN mech_fallback
    ELSE << mech_diagnosa(h_val, v_val, a_val, warning_threshold),
            mech_rekomendasi(h_val, v_val, a_val, warning_threshold) >>

\* the early return taken with <= instead of <
mechanical_analyze_root_cause_le(h_val, v_val, a_val, warning_threshold) ==
    IF Max2(Max2(h_val, v_val), a_val) <= warning_threshold
    THEN << <<D_NORMAL>>, <<"Lanjutkan monitoring rutin (Predictive Maintenance)">> >>
    ELSE IF mech_diagnosa(h_val, v_val, a_val, warning_threshold) = <<>>
    THEN mech_fallback
    ELSE << mech_diagnosa(h_val, v_val, a_val, warning_threshold),
            mech_rekomendasi(h_val, v_val, a_val, warning_threshold) >>

\* returns (diagnosa, rekomendasi)
mechanical_analyze_root_cause(h_val, v_val, a_val, warning_threshold) ==
    IF Max2(Max2(h_val, v_val), a_val) < warning_threshold
    THEN << <<D_NORMAL>>, <<"Lanjutkan monitoring rutin (Predictive Maintenance)">> >>
    ELSE IF mech_diagnosa(h_val, v_val, a_val, warning_threshold) = <<>>
    THEN mech_fallback
    ELSE << mech_diagnosa(h_val, v_val, a_val, warning_threshold),
            mech_rekomendasi(h_val, v_val, a_val, warning_threshold) >>

----------------------------------------------------------------------------
(* src/modules/vibration_diagnostics.py: the report and its diagnosis *)

calculate_average(val1, val2) == (val1 + val2) \div 2

\* the keys of `inputs`, per row of the report: (Unit, Axis, DE key, NDE key)
ReportRows ==
    << <<"Driver", "H", "m_de_h", "m_nde_h">>,
       <<"Driver", "V", "m_de_v", "m_nde_v">>,
       <<"Driver", "A", "m_de_a", "m_nde_a">>,
       <<"Driven", "H", "p_de_h", "p_nde_h">>,
       <<"Driven", "V", "p_de_v", "p_nde_v">>,
       <<"Driven", "A", "p_de_a", "p_nde_a">> >>

InputKeys == UNION { { ReportRows[i][3], ReportRows[i][4] } : i \in DOMAIN ReportRows }

\* the DataFrame of generate_full_report: one record per row
dataframe(self, inputs) ==
    [ i \in DOMAIN ReportRows |->
        LET avr == calculate_average(inputs[ReportRows[i][3]], inputs[ReportRows[i][4]])
        IN  [ Unit |-> ReportRows[i][1], Axis |-> ReportRows[i][2],
              DE |-> inputs[ReportRows[i][3]], NDE |-> inputs[ReportRows[i][4]],
              Avr |-> avr, Limit |-> self.limit_warn, Remark |-> determine_zone(self, avr) ] ]

\* df_report[(Unit == unit) & (Axis == axis)]['Avr'].values
AvrValues(df_report, unit, axis) ==
    LET rows == SelectSeq(df_report, LAMBDA r : r.Unit = unit /\ r.Axis = axis)
    IN  [ i \in DOMAIN rows |-> rows[i].Avr ]

\* df_report['Avr'].max()
MaxAvr(df_report) ==
    CHOOSE m \in { df_report[i].Avr : i \in DOMAIN df_report } :
        \A i \in DOMAIN df_report : df_report[i].Avr <= m

C_MISALIGNMENT == "MISALIGNMENT: Vibrasi Axial Dominan. Cek Kopling & Alignment."

C_UNBALANCE == "UNBALANCE: Vibrasi Radial (Horiz) Dominan. Cek Kotoran di Kipas/Impeller."

C_LOOSENESS == "LOOSENESS / SOFT FOOT: Vibrasi Vertical Dominan. Cek Baut Pondasi."

C_BENT_SHAFT == "BENT SHAFT (Indikasi): Vibrasi Axial Tinggi di kedua sisi."

\* a missing row makes .values[0] raise, which the bare except turns into a message
diagnose_root_cause(self, df_report) ==
    IF MaxAvr(df_report) < self.limit_warn THEN <<>>
    ELSE IF \E u \in { "Driver", "Driven" }, x \in { "H", "V", "A" } :
                AvrValues(df_report, u, x) = <<>>
    THEN <<"Data tidak lengkap untuk diagnosa otomatis">>
    ELSE LET m_h == AvrValues(df_report, "Driver", "H")[1]
             m_v == AvrValues(df_report, "Driver", "V")[1]
             m_a == AvrValues(df_report, "Driver", "A")[1]
             p_h == AvrValues(df_report, "Driven", "H")[1]
             p_v == AvrValues(df_report, "Driven", "V")[1]
             p_a == AvrValues(df_report, "Driven", "A")[1]
             max_radial == Max2(Max2(m_h, m_v), Max2(p_h, p_v))
         IN  (IF /\ (m_a > self.limit_warn \/ p_a > self.limit_warn)
                 /\ 2 * Max2(m_a, p_a) > max_radial
              THEN <<C_MISALIGNMENT>> ELSE <<>>)
             \o (IF /\ (m_h > self.limit_warn \/ p_h > self.limit_warn)
                    /\ Max2(m_a, p_a) < self.limit_warn
                 THEN <<C_UNBALANCE>> ELSE <<>>)
             \o (IF 2 * m_v > 3 * m_h /\ m_v > self.limit_warn
                 THEN <<C_LOOSENESS>> ELSE <<>>)
             \o (IF m_a > self.limit_trip /\ p_a > self.limit_trip
                 THEN <<C_BENT_SHAFT>> ELSE <<>>)

\* the returned dict of generate_full_report
generate_full_report(self, inputs) ==
    LET df == dataframe(self, inputs)
        remark_list == [ i \in DOMAIN df |-> df[i].Remark ]
        status_global ==
            IF \E i \in DOMAIN remark_list : PyIn("ZONE D", remark_list[i])
            THEN "ZONE D: DAMAGE"
            ELSE IF \E i \in DOMAIN remark_list : PyIn("ZONE C", remark_list[i])
            THEN "ZONE C: WARNING"
            ELSE IF \E i \in DOMAIN remark_list : PyIn("ZONE A", remark_list[i])
            THEN "ZONE A: NEW CONDITION"
            ELSE "ZONE B: Unlimited"
        color_global ==
            IF PyIn("ZONE A", status_global) THEN "#2ecc71"
            ELSE IF PyIn("ZONE C", status_global) THEN "#f1c40f"
            ELSE IF PyIn("ZONE D", status_global) THEN "#e74c3c"
            ELSE "#a3e048"
    IN  [ dataframe |-> df,
          max_value |-> MaxAvr(df),
          global_status |-> status_global,
          global_color |-> color_global,
          causes |-> diagnose_root_cause(self, df) ]

----------------------------------------------------------------------------
(* src/modules/temperature_diagnostics.py *)

\* {val} of the f-string for a float with one decimal: (integer part, tenths)
FormatTemp(val) == << val \div 10, val % 10 >>

\* base_msg: the parts of the f-string that vary, then the fixed text
base_msg(loc, val) == << "OVERHEAT di", loc, FormatTemp(val) >>

NoiseTypes == { "Mencicit (Squealing)", "Ngorok/Kasar (Growling)", "Gesekan Logam (Scraping)" }

\* the text appended to base_msg by the if/elif chain
temperature_text(loc, noise_type, vib_axial_high) ==
    IF noise_type = "Mencicit (Squealing)"
    THEN "PENYEBAB: Kurang Pelumas/Grease Kering (TKI 1.b). REKOMENDASI: Cek visual grease & Regreasing."
    ELSE IF PyIn("DE", loc) /\ vib_axial_high
    THEN "PENYEBAB: Misalignment Coupling (TKI 1.a). REKOMENDASI: Cek Hot Alignment & Posisi Kopling."
    ELSE IF noise_type = "Ngorok/Kasar (Growling)"
    THEN "PENYEBAB: Bearing Rusak/Cacat (TKI 1.e). REKOMENDASI: Ganti Bearing segera."
    ELSE IF PyIn("Pump DE", loc) /\ PyIn("Seal", loc)
    THEN "PENYEBAB: Gland Packing Terlalu Kencang atau Seal Flush Buntu (TKI 2.a/b). REKOMENDASI: Kendurkan Gland Nut atau Cek Piping Plan."
    ELSE IF PyIn("Pump DE", loc)
    THEN "PENYEBAB: Beban Axial Tinggi / Posisi Guide Vane Salah (TKI 1.d). REKOMENDASI: Cek setelan impeller & axial play."
    ELSE "REKOMENDASI: Stop & Periksa Fisik Sesuai TKI D.1."

\* diagnosa if overheat_points took val >= limit_warn
temperature_diagnosa_ge(temps, limit_warn, noise_type, vib_axial_high) ==
    LET overheat_points == SelectSeq(temps, LAMBDA t : t.val >= limit_warn)
    IN  [ i \in DOMAIN overheat_points |->
            Append(base_msg(overheat_points[i].loc, overheat_points[i].val),
                   temperature_text(overheat_points[i].loc, noise_type, vib_axial_high)) ]

\* the list diagnosa before the return; temps is the dict as its items in order
temperature_diagnosa(temps, limit_warn, noise_type, vib_axial_high) ==
    LET overheat_points == SelectSeq(temps, LAMBDA t : t.val > limit_warn)
    IN  [ i \in DOMAIN overheat_points |->
            Append(base_msg(overheat_points[i].loc, overheat_points[i].val),
                   temperature_text(overheat_points[i].loc, noise_type, vib_axial_high)) ]

\* the possible returns: [] when nothing overheats, else list(set(diagnosa)) in any order
analyze_temperature_profile(temps, limit_warn, noise_type, vib_axial_high) ==
    Perms(Range(temperature_diagnosa(temps, limit_warn, noise_type, vib_axial_high)))

----------------------------------------------------------------------------
(* The rule matchers, each called once on inputs around its limits *)

\* readings of main(): zero except at up to MaxHot points
ReadingValues == { 1000, ISO_CLASS_II[2], ISO_CLASS_II[2] + Step, 5000 }

ReadingLists ==
    UNION { { [ i \in DOMAIN Points |->
                  [ location |-> Points[i].location, axis |-> Points[i].axis,
                    value |-> IF i \in S THEN f[i] ELSE 0 ] ] : f \in [ S -> ReadingValues ] }
            : S \in { T \in SUBSET (DOMAIN Points) : Cardinality(T) <= MaxHot } }

\* h_val, v_val, a_val of create_table_row, relative to the threshold of the class
MechValues(w) == { 0, w \div 2, (3 * w) \div 5, w - Step, w, w + Step, 2 * w }

\* (DE, NDE) of one row of the form: averages 0, below limit_warn, at limit_warn,
\* just above it, at limit_trip, above limit_trip
RowPairs(self) ==
    { <<0, 0>>, <<self.limit_warn - Step, self.limit_warn - Step>>,
      <<self.limit_warn - Step, self.limit_warn + Step>>,
      <<self.limit_warn, self.limit_warn + Step>>,
      <<self.limit_trip, self.limit_trip>>,
      <<self.limit_trip + Step, self.limit_trip + Step>> }

\* the spec's example: Motor DE Axial 5.0, Motor DE Horizontal 1.0, the rest 0
ExampleInputs ==
    [ k \in InputKeys |-> IF k = "m_de_a" THEN 5000 ELSE IF k = "m_de_h" THEN 1000 ELSE 0 ]

ReportInputs(self) ==
    { [ k \in InputKeys |->
          LET i == CHOOSE j \in DOMAIN ReportRows : k \in { ReportRows[j][3], ReportRows[j][4] }
          IN  IF k = ReportRows[i][3] THEN p[i][1] ELSE p[i][2] ]
      : p \in [ DOMAIN ReportRows -> RowPairs(self) ] }
    \cup { ExampleInputs }

TempLocations == << "Motor DE", "Motor NDE", "Pump DE", "Pump NDE", "Pump DE Seal" >>

TEMP_LIMIT == 750

TempReadings == { TEMP_LIMIT, TEMP_LIMIT + 1, 800 }

TempDicts ==
    { t \in { [ i \in DOMAIN TempLocations |-> [ loc |-> TempLocations[i], val |-> f[i] ] ]
              : f \in [ DOMAIN TempLocations -> TempReadings ] } :
        Cardinality({ i \in DOMAIN t : t[i].val > TEMP_LIMIT }) <= MaxHot }

Analyzers ==
    { VibrationAnalyzer_init(ConfigLimits(cfg)[1], ConfigLimits(cfg)[2]) : cfg \in AnalyzerConfigs }

MatchInit ==
    /\ heap = InitialHeap
    /\ calls = <<>>
    /\ \/ /\ analyzer = NoObject
          /\ args \in [ fn : { "MechanicalEngine.analyze_root_cause" },
                        readings : ReadingLists, warning_limit : { ISO_CLASS_II[2] } ]
       \/ /\ analyzer = NoObject
          /\ \E c \in MachineClasses :
                args \in [ fn : { "mechanical.analyze_root_cause" },
                           h_val : MechValues(limits_map[c]), v_val : MechValues(limits_map[c]),
                           a_val : MechValues(limits_map[c]),
                           warning_threshold : { limits_map[c] } ]
       \/ /\ analyzer \in Analyzers
          /\ args \in [ fn : { "VibrationAnalyzer.generate_full_report" },
                        inputs : ReportInputs(analyzer) ]
       \/ /\ analyzer = NoObject
          /\ args \in [ fn : { "analyze_temperature_profile" }, temps : TempDicts,
                        limit_warn : { TEMP_LIMIT }, noise_type : NoiseTypes,
                        vib_axial_high : BOOLEAN ]

CallMechanicalEngineAnalyzeRootCause ==
    /\ calls = <<>> /\ args.fn = "MechanicalEngine.analyze_root_cause"
    /\ \E ret \in MechanicalEngine_analyze_root_cause(args.readings, args.warning_limit) :
          calls' = << [ fn |-> args.fn, ret |-> ret ] >>
    /\ UNCHANGED <<args, analyzer, heap>>

CallMechanicalAnalyzeRootCause ==
    /\ calls = <<>> /\ args.fn = "mechanical.analyze_root_cause"
    /\ calls' = << [ fn |-> args.fn,
                     ret |-> mechanical_analyze_root_cause(args.h_val, args.v_val, args.a_val,
                                                           args.warning_threshold) ] >>
    /\ UNCHANGED <<args, analyzer, heap>>

CallGenerateFullReport ==
    /\ calls = <<>> /\ args.fn = "VibrationAnalyzer.generate_full_report"
    /\ calls' = << [ fn |-> args.fn, ret |-> generate_full_report(analyzer, args.inputs) ] >>
    /\ UNCHANGED <<args, analyzer, heap>>

CallAnalyzeTemperatureProfile ==
    /\ calls = <<>> /\ args.fn = "analyze_temperature_profile"
    /\ \E ret \in analyze_temperature_profile(args.temps, args.limit_warn, args.noise_type,
                                              args.vib_axial_high) :
          calls' = << [ fn |-> args.fn, ret |-> ret ] >>
    /\ UNCHANGED <<args, analyzer, heap>>

MatchNext ==
    \/ CallMechanicalEngineAnalyzeRootCause
    \/ CallMechanicalAnalyzeRootCause
    \/ CallGenerateFullReport
    \/ CallAnalyzeTemperatureProfile

MatchSpec == MatchInit /\ [][MatchNext]_vars

\* the list of tags in the value a matcher returned
Tags(call) ==
    CASE call.fn = "mechanical.analyze_root_cause" -> call.ret[1]
      [] call.fn = "VibrationAnalyzer.generate_full_report" -> call.ret.causes
      [] OTHER -> call.ret

Distinct(seq) == \A i, j \in DOMAIN seq : i # j => seq[i] # seq[j]

\* C8: the list a rule matcher returns never holds the same tag twice, also
\* when several of its rules fire
NoDuplicateTags == \A k \in DOMAIN calls : Distinct(Tags(calls[k]))

\* mechanical.analyze_root_cause returned with two of its rules fired
NoDuplicateTagsWitness ==
    /\ calls # <<>>
    /\ calls[1].fn = "mechanical.analyze_root_cause"
    /\ mech_rule1(args.h_val, args.v_val, args.a_val, args.warning_threshold)
    /\ mech_rule3(args.h_val, args.v_val, args.a_val, args.warning_threshold)
    /\ Len(calls[1].ret[1]) = 2

\* C9: MechanicalEngine.analyze_root_cause returns [] when no reading is above
\* the warning limit, and the report's diagnosis is [] when no DE/NDE average
\* is above the analyzer's warning limit; all-zero readings are one such case
NoExceedanceEmpty ==
    \A k \in DOMAIN calls :
        /\ ( /\ calls[k].fn = "MechanicalEngine.analyze_root_cause"
             /\ \A i \in DOMAIN args.readings : args.readings[i].value <= args.warning_limit )
           => calls[k].ret = <<>>
        /\ ( /\ calls[k].fn = "VibrationAnalyzer.generate_full_report"
             /\ \A i \in DOMAIN calls[k].ret.dataframe :
                    calls[k].ret.dataframe[i].Avr <= analyzer.limit_warn )
           => calls[k].ret.causes = <<>>

\* a horizontal reading exactly at the warning limit, none above: nothing returned
NoExceedanceEmptyWitness ==
    /\ calls # <<>>
    /\ calls[1].fn = "MechanicalEngine.analyze_root_cause"
    /\ \E i \in DOMAIN args.readings :
          args.readings[i].axis = "Horizontal" /\ args.readings[i].value = args.warning_limit
    /\ \A i \in DOMAIN args.readings : args.readings[i].value <= args.warning_limit
    /\ calls[1].ret = <<>>

AllZeroCall(call) ==
    /\ call.fn = "mechanical.analyze_root_cause"
    /\ args.h_val = 0 /\ args.v_val = 0 /\ args.a_val = 0
    /\ args.warning_threshold > 0

\* C10 as stated: mechanical.analyze_root_cause(0, 0, 0, w) with w > 0 returns
\* an empty list of diagnostic tags
AllZeroEmptyList ==
    \A k \in DOMAIN calls : AllZeroCall(calls[k]) => calls[k].ret[1] = <<>>

\* C10: mechanical.analyze_root_cause(0, 0, 0, w) with w > 0 returns the single
\* diagnosis 'Kondisi Normal' and the single recommendation to keep monitoring
AllZeroKondisiNormal ==
    \A k \in DOMAIN calls :
        AllZeroCall(calls[k]) => /\ calls[k].ret[1] = << D_NORMAL >>
                                 /\ Len(calls[k].ret[2]) = 1

\* the all-zero call has returned
AllZeroKondisiNormalWitness ==
    /\ calls # <<>>
    /\ AllZeroCall(calls[1])
    /\ D_NORMAL \in Range(calls[1].ret[1])

EsaCall(call) == call.fn = "MechanicalEngine.analyze_root_cause"

\* some reading of the given axis at one of the locations is above the warning limit
Exceeds(axis, locations) ==
    \E i \in DOMAIN args.readings :
        /\ args.readings[i].axis = axis
        /\ args.readings[i].location \in locations
        /\ args.readings[i].value > args.warning_limit

\* the readings of the spec's example: Motor DE Axial 5.0, Motor DE Horizontal 1.0
ExampleReadings ==
    \A i \in DOMAIN args.readings :
        args.readings[i].value =
            IF args.readings[i].location = "Motor DE" /\ args.readings[i].axis = "Axial"
            THEN 5000
            ELSE IF args.readings[i].location = "Motor DE" /\ args.readings[i].axis = "Horizontal"
            THEN 1000
            ELSE 0

\* C11: MechanicalEngine.analyze_root_cause returns the MISALIGNMENT tag whenever
\* an Axial reading at Motor DE or Pump DE is above the warning limit, whatever
\* the other readings are
DriveEndAxialMisalignment ==
    \A k \in DOMAIN calls :
        (EsaCall(calls[k]) /\ Exceeds("Axial", { "Motor DE", "Pump DE" }))
            => T_MISALIGNMENT \in Range(calls[k].ret)

\* the call on the spec's example readings has returned the MISALIGNMENT tag
DriveEndAxialMisalignmentWitness ==
    /\ calls # <<>>
    /\ EsaCall(calls[1])
    /\ ExampleReadings
    /\ args.warning_limit = 2800
    /\ PyIn("MISALIGNMENT", calls[1].ret[1])

ReportCall(call) == call.fn = "VibrationAnalyzer.generate_full_report"

\* C12: VibrationAnalyzer(limit_warn=2.8).generate_full_report on the spec's
\* example readings returns a causes list that includes a MISALIGNMENT tag
ExampleReportMisalignment ==
    \A k \in DOMAIN calls :
        (ReportCall(calls[k]) /\ analyzer.limit_warn = 2800 /\ args.inputs = ExampleInputs)
            => \E i \in DOMAIN calls[k].ret.causes : PyIn("MISALIGNMENT", calls[k].ret.causes[i])

MechCall(call) == call.fn = "mechanical.analyze_root_cause"

\* mechanical.analyze_root_cause is past its early return
PastNormal == Max2(Max2(args.h_val, args.v_val), args.a_val) >= args.warning_threshold

\* the averages of the report, by row
Avr(call, i) == call.ret.dataframe[i].Avr

MaxRadialAvr(call) == Max2(Max2(Avr(call, 1), Avr(call, 2)), Max2(Avr(call, 4), Avr(call, 5)))

MaxAxialAvr(call) == Max2(Avr(call, 3), Avr(call, 6))

----------------------------------------------------------------------------
(* Phase values as floats.  A list of phase values is a list of integers in one
   unit: "tenth" (0.1 V or 0.1 A, the step of the forms) or "min_float" (the
   smallest positive float, 5e-324).  Sums of such values are exact in both
   units; a quotient is a fraction [num, den], except that in unit "min_float"
   the floats are so sparse that the quotient is rounded to a whole number of
   units, half to even: (5e-324 + 0.0 + 0.0) / 3 = 0.0 *)

FloatUnits == { "tenth", "min_float" }

RECURSIVE Sum(_)
Sum(values) == IF values = <<>> THEN 0 ELSE values[1] + Sum(Tail(values))

MaxOf(values) == CHOOSE m \in Range(values) : \A v \in Range(values) : v <= m

RoundHalfEven(n, d) ==
    LET q == n \div d
        r == n % d
    IN  IF 2 * r < d THEN q
        ELSE IF 2 * r > d THEN q + 1
        ELSE IF q % 2 = 0 THEN q ELSE q + 1

\* np.mean(values), and (a + b + c) / 3
np_mean(values, unit) ==
    IF unit = "min_float"
    THEN [ num |-> RoundHalfEven(Sum(values), Len(values)), den |-> 1 ]
    ELSE [ num |-> Sum(values), den |-> Len(values) ]

\* the outcome of a division whose divisor is 0.0
ZeroDivisionError == [ exception |-> "ZeroDivisionError" ]

Raises(x) == "exception" \in DOMAIN x

Zero == [ num |-> 0, den |-> 1 ]

\* max(abs(v - avg) for v in values) / avg * 100, in percent; the division by a
\* zero avg does not give a number
max_dev_pct(values, avg) ==
    IF avg.num = 0 THEN ZeroDivisionError
    ELSE [ num |-> 100 * MaxOf([ i \in DOMAIN values |-> Abs(values[i] * avg.den - avg.num) ]),
           den |-> avg.num ]

\* pct > limit, for a whole number of percent
PctAbove(pct, limit) == pct.num > limit * pct.den

\* f"{pct:.2f}" as hundredths of a percent
Format2f(pct) == RoundHalfEven(100 * pct.num, pct.den)

----------------------------------------------------------------------------
(* src/modules/electrical_diagnostics.py: calculate_unbalance *)

calculate_unbalance(values, unit) ==
    LET avg == np_mean(values, unit)
    IN  IF avg.num = 0 THEN Zero ELSE max_dev_pct(values, avg)

----------------------------------------------------------------------------
(* src/modules/electrical.py: app, one run of the script on the form's values *)

\* shown: the widgets written after the inputs, in order; raised: the exception
\* that ended the run, or None
electrical_app(r_amp, s_amp, t_amp, ir_val, unit) ==
    LET avg_amp == np_mean(<<r_amp, s_amp, t_amp>>, unit)
        unbalance == max_dev_pct(<<r_amp, s_amp, t_amp>>, avg_amp)
        col1 == IF r_amp > 0
                THEN << <<"metric", "Unbalance Arus", Format2f(unbalance)>>,
                        IF PctAbove(unbalance, 10)
                        THEN <<"error", "Unbalance Tinggi (>10%)! Cek koneksi atau lilitan.">>
                        ELSE <<"success", "Balance Arus OK">> >>
                ELSE <<>>
        \* 2.0 megaohm is 20 tenths
        col2 == IF ir_val > 0
                THEN IF ir_val < 20
                     THEN << <<"error", "IR Rendah / Winding Basah (IEEE 43)">> >>
                     ELSE << <<"success", "Isolasi Winding Baik">> >>
                ELSE <<>>
    IN  IF r_amp > 0 /\ Raises(unbalance)
        THEN [ shown |-> <<>>, raised |-> unbalance.exception ]
        ELSE [ shown |-> col1 \o col2, raised |-> None ]

----------------------------------------------------------------------------
(* src/simulasi_esa.py: ElectricalEngine.  Volts and amperes in tenths, the
   ground current in hundredths of an ampere, the temperature in tenths *)

VOLTAGE_UNBALANCE_TRIP == 3

CURRENT_UNBALANCE_ALARM == 2

CURRENT_UNBALANCE_TRIP == 5

WINDING_LIMIT == 1300

ANSI ==
    [ UV_27 |-> "27 - Undervoltage", UC_37 |-> "37 - Undercurrent (Dry Run)",
      UB_46 |-> "46 - Current Unbalance", VU_47 |-> "47 - Voltage Unbalance",
      TH_49 |-> "49 - Thermal Overload", IOC_50 |-> "50 - Instantaneous Overcurrent",
      GF_50N |-> "50N/51N - Ground Fault", LR_50LR |-> "50LR - Locked Rotor",
      TOC_51 |-> "51 - Time Overcurrent", OV_59 |-> "59 - Overvoltage",
      ST_66 |-> "66 - Start Limitation" ]

\* f"{avg:.1f}" of a fraction of tenths, and of a percentage (as tenths of a percent)
Format1f(avg) == RoundHalfEven(avg.num, avg.den)

FormatPct1f(pct) == RoundHalfEven(10 * pct.num, pct.den)

\* avg < rated * pickup and avg > rated * pickup, pickup in hundredths
AvgBelow(avg, rated, pickup) == 100 * avg.num < rated * pickup * avg.den

AvgAbove(avg, rated, pickup) == 100 * avg.num > rated * pickup * avg.den

\* v_unbal_pct / i_unbal_pct: 0.0 in the else branch of `if avg > 0`
engine_unbal_pct(values) ==
    LET avg == np_mean(values, "tenth")
    IN  IF avg.num > 0 THEN max_dev_pct(values, avg) ELSE Zero

\* analyze_flags with `if` for the `elif` of ANSI 37
analyze_flags_if(s, v_in, i_in, i_g, starts, temp, status) ==
    LET is_starting == (status = "Starting")
        avg_v == np_mean(v_in, "tenth")
        v_unbal_pct == engine_unbal_pct(v_in)
        max_i == MaxOf(i_in)
        avg_i == np_mean(i_in, "tenth")
        i_unbal_pct == engine_unbal_pct(i_in)
    IN  (IF avg_v.num > 0 /\ PctAbove(v_unbal_pct, VOLTAGE_UNBALANCE_TRIP)
         THEN << <<"TRIP", ANSI.VU_47, "Unbalance", FormatPct1f(v_unbal_pct)>> >>
         ELSE <<>>)
        \o (IF AvgBelow(avg_v, s.rated_volt, s.pickup_27)
            THEN << <<"TRIP", ANSI.UV_27, "Voltage Avg < Limit", Format1f(avg_v)>> >>
            ELSE IF AvgAbove(avg_v, s.rated_volt, s.pickup_59)
            THEN << <<"TRIP", ANSI.OV_59, "Voltage Avg > Limit", Format1f(avg_v)>> >>
            ELSE <<>>)
        \o (IF is_starting
            THEN IF 100 * max_i > s.flc_amps * s.pickup_50
                 THEN << <<"TRIP", ANSI.LR_50LR, "Starting Current too high", max_i>> >>
                 ELSE <<>>
            ELSE (IF 100 * max_i > s.flc_amps * s.pickup_51
                  THEN << <<"TRIP", ANSI.TOC_51, "Overload detected", max_i>> >>
                  ELSE <<>>)
                 \o (IF AvgBelow(avg_i, s.flc_amps, s.pickup_37) /\ avg_i.num > 10 * avg_i.den
                     THEN << <<"ALARM", ANSI.UC_37, "Dry Run / Underload", Format1f(avg_i)>> >>
                     ELSE <<>>))
        \o (IF avg_i.num > 0 /\ PctAbove(i_unbal_pct, CURRENT_UNBALANCE_TRIP)
            THEN << <<"TRIP", ANSI.UB_46, "Current Unbalance", FormatPct1f(i_unbal_pct)>> >>
            ELSE IF avg_i.num > 0 /\ PctAbove(i_unbal_pct, CURRENT_UNBALANCE_ALARM)
            THEN << <<"ALARM", ANSI.UB_46, "Current Unbalance", FormatPct1f(i_unbal_pct)>> >>
            ELSE <<>>)
        \o (IF i_g > s.pickup_50n
            THEN << <<"TRIP", ANSI.GF_50N, "Ground Fault detected", i_g>> >>
            ELSE <<>>)
        \o (IF starts > s.max_starts_hr
            THEN << <<"BLOCK", ANSI.ST_66, "Starts/Hr Exceeded", starts>> >>
            ELSE <<>>)
        \o (IF temp > WINDING_LIMIT
            THEN << <<"TRIP", ANSI.TH_49, "Winding Overheat", FormatTemp(temp)>> >>
            ELSE <<>>)

\* the flags one call of analyze appends, in order; each flag is the parts of
\* its f-string: (level, ANSI code, text, formatted value)
analyze_flags(s, v_in, i_in, i_g, starts, temp, status) ==
    LET is_starting == (status = "Starting")
        avg_v == np_mean(v_in, "tenth")
        v_unbal_pct == engine_unbal_pct(v_in)
        max_i == MaxOf(i_in)
        avg_i == np_mean(i_in, "tenth")
        i_unbal_pct == engine_unbal_pct(i_in)
    IN  (IF avg_v.num > 0 /\ PctAbove(v_unbal_pct, VOLTAGE_UNBALANCE_TRIP)
         THEN << <<"TRIP", ANSI.VU_47, "Unbalance", FormatPct1f(v_unbal_pct)>> >>
         ELSE <<>>)
        \o (IF AvgBelow(avg_v, s.rated_volt, s.pickup_27)
            THEN << <<"TRIP", ANSI.UV_27, "Voltage Avg < Limit", Format1f(avg_v)>> >>
            ELSE IF AvgAbove(avg_v, s.rated_volt, s.pickup_59)
            THEN << <<"TRIP", ANSI.OV_59, "Voltage Avg > Limit", Format1f(avg_v)>> >>
            ELSE <<>>)
        \o (IF is_starting
            THEN IF 100 * max_i > s.flc_amps * s.pickup_50
                 THEN << <<"TRIP", ANSI.LR_50LR, "Starting Current too high", max_i>> >>
                 ELSE <<>>
            ELSE IF 100 * max_i > s.flc_amps * s.pickup_51
                 THEN << <<"TRIP", ANSI.TOC_51, "Overload detected", max_i>> >>
                 ELSE IF AvgBelow(avg_i, s.flc_amps, s.pickup_37) /\ avg_i.num > 10 * avg_i.den
                 THEN << <<"ALARM", ANSI.UC_37, "Dry Run / Underload", Format1f(avg_i)>> >>
                 ELSE <<>>)
        \o (IF avg_i.num > 0 /\ PctAbove(i_unbal_pct, CURRENT_UNBALANCE_TRIP)
            THEN << <<"TRIP", ANSI.UB_46, "Current Unbalance", FormatPct1f(i_unbal_pct)>> >>
            ELSE IF avg_i.num > 0 /\ PctAbove(i_unbal_pct, CURRENT_UNBALANCE_ALARM)
            THEN << <<"ALARM", ANSI.UB_46, "Current Unbalance", FormatPct1f(i_unbal_pct)>> >>
            ELSE <<>>)
        \o (IF i_g > s.pickup_50n
            THEN << <<"TRIP", ANSI.GF_50N, "Ground Fault detected", i_g>> >>
            ELSE <<>>)
        \o (IF starts > s.max_starts_hr
            THEN << <<"BLOCK", ANSI.ST_66, "Starts/Hr Exceeded", starts>> >>
            ELSE <<>>)
        \o (IF temp > WINDING_LIMIT
            THEN << <<"TRIP", ANSI.TH_49, "Winding Overheat", FormatTemp(temp)>> >>
            ELSE <<>>)

\* ElectricalEngine(settings): self.flags is a new, empty list object; a list
\* object is named by its index in heap.lists
ElectricalEngine_init(h, settings) ==
    [ self |-> [ class |-> "ElectricalEngine", s |-> settings, flags |-> Len(h.lists) + 1 ],
      heap |-> [ h EXCEPT !.lists = Append(@, <<>>) ] ]

\* analyze without its first line `self.flags = []`: the appends go to the list
\* the object already holds
ElectricalEngine_analyze_no_reset(self, h, v_in, i_in, i_g, starts, temp, status) ==
    [ self |-> self,
      heap |-> [ h EXCEPT !.lists[self.flags] =
                     @ \o analyze_flags(self.s, v_in, i_in, i_g, starts, temp, status) ],
      ret |-> << self.flags, engine_unbal_pct(i_in), engine_unbal_pct(v_in) >> ]

\* analyze: self.flags is bound to a new list object, the flags are appended to
\* it, and that same object is returned with the two percentages
ElectricalEngine_analyze(self, h, v_in, i_in, i_g, starts, temp, status) ==
    LET flags == Len(h.lists) + 1
    IN  [ self |-> [ self EXCEPT !.flags = flags ],
          heap |-> [ h EXCEPT !.lists =
                         Append(@, analyze_flags(self.s, v_in, i_in, i_g, starts, temp, status)) ],
          ret |-> << flags, engine_unbal_pct(i_in), engine_unbal_pct(v_in) >> ]

----------------------------------------------------------------------------
(* src/modules/electrical_diagnostics.py: analyze_electrical_health.  Each
   diagnosis is the parts of its f-string: (ANSI text, formatted value) *)

\* A. the if/elif on the average voltage
health_voltage(avg_v, rated_v) ==
    IF AvgBelow(avg_v, rated_v, 90)
    THEN << <<"ANSI 27 - UNDERVOLTAGE", Format1f(avg_v)>> >>
    ELSE IF AvgAbove(avg_v, rated_v, 110)
    THEN << <<"ANSI 59 - OVERVOLTAGE", Format1f(avg_v)>> >>
    ELSE <<>>

health_voltage_unbalance(v_unbal) ==
    IF PctAbove(v_unbal, 3) THEN << <<"ANSI 47 - PHASE BALANCE", FormatPct1f(v_unbal)>> >> ELSE <<>>

\* B. the three independent ifs on the current
health_dry_run(avg_i, flc) ==
    IF AvgBelow(avg_i, flc, 40) /\ avg_i.num > 10 * avg_i.den
    THEN << <<"ANSI 37 - DRY RUN / LOW LOAD", Format1f(avg_i)>> >>
    ELSE <<>>

health_overload(max_i, flc) ==
    IF 100 * max_i > flc * 110 THEN << <<"ANSI 51 - OVERLOAD", max_i>> >> ELSE <<>>

health_current_unbalance(i_unbal) ==
    IF PctAbove(i_unbal, 10) THEN << <<"ANSI 46 - CURRENT UNBALANCE", FormatPct1f(i_unbal)>> >> ELSE <<>>

\* C. the ground current, with >= for >
health_ground_ge(i_g) ==
    IF i_g >= 50 THEN << <<"ANSI 50G - GROUND FAULT", i_g>> >> ELSE <<>>

\* C. the ground current, 0.5 A is 50 hundredths
health_ground(i_g) ==
    IF i_g > 50 THEN << <<"ANSI 50G - GROUND FAULT", i_g>> >> ELSE <<>>

\* the returned tuple (diagnosa, v_unbal, i_unbal)
analyze_electrical_health(v_in, i_in, i_g, rated_v, flc) ==
    LET avg_v == np_mean(v_in, "tenth")
        avg_i == np_mean(i_in, "tenth")
        max_i == MaxOf(i_in)
        v_unbal == calculate_unbalance(v_in, "tenth")
        i_unbal == calculate_unbalance(i_in, "tenth")
    IN  << health_voltage(avg_v, rated_v) \o health_voltage_unbalance(v_unbal)
             \o health_dry_run(avg_i, flc) \o health_overload(max_i, flc)
             \o health_current_unbalance(i_unbal) \o health_ground(i_g),
           v_unbal, i_unbal >>

----------------------------------------------------------------------------
(* The unbalance calculations and the electrical engine *)

\* phase values of calculate_unbalance and of the form, in either unit
PhaseValues == { 0, 1, 2, 284 }

IrValues == { 0, 10, 20 }

\* the arguments of one analyze call around the settings s
EngineArgs(s) ==
    [ v_in : { <<0, 0, 0>>, <<s.rated_volt, s.rated_volt, s.rated_volt>>,
               <<s.rated_volt, s.rated_volt, s.rated_volt - 400>>,
               <<s.rated_volt - 500, s.rated_volt - 500, s.rated_volt - 500>>,
               <<s.rated_volt + 500, s.rated_volt + 500, s.rated_volt + 500>> },
      i_in : { <<0, 0, 0>>, <<284, 284, 284>>, <<284, 284, 264>>, <<284, 284, 234>>,
               <<50, 50, 50>>, <<(s.flc_amps * 11) \div 10 + 1, 10, 10>>,
               <<2 * s.flc_amps, 2 * s.flc_amps, 2 * s.flc_amps>>,
               <<7 * s.flc_amps, 7 * s.flc_amps, 7 * s.flc_amps>> },
      i_g : { 0, 150 }, starts : { 1, 5 }, temp : { 650, 1310 },
      status : { "Running", "Starting", "Stopped" } ]

\* the arguments of a second call on the same engine: all normal, all zero, all wrong
SecondArgs(s) ==
    { [ v_in |-> <<s.rated_volt, s.rated_volt, s.rated_volt>>, i_in |-> <<284, 284, 284>>,
        i_g |-> 0, starts |-> 1, temp |-> 650, status |-> "Running" ],
      [ v_in |-> <<0, 0, 0>>, i_in |-> <<0, 0, 0>>,
        i_g |-> 0, starts |-> 1, temp |-> 650, status |-> "Stopped" ],
      [ v_in |-> <<s.rated_volt, s.rated_volt, s.rated_volt - 400>>,
        i_in |-> <<284, 284, 234>>,
        i_g |-> 150, starts |-> 5, temp |-> 1310, status |-> "Running" ] }

\* the asset whose thresholds 360.0 V, 440.0 V, 21.6 A and 59.4 A all lie on the
\* 0.1 grid of the readings; its readings are also drawn on the thresholds
OnGridAsset == "733-P-103"

\* v_in of analyze_electrical_health around 90 % and 110 % of rated_v and around
\* 3 % unbalance
HealthVoltages(tag) ==
    LET rated_v == ASSET_DB[tag].volt_rated
        low == (rated_v * 9) \div 10
        high == (rated_v * 11) \div 10
        dev == (rated_v * 3) \div 100
    IN  { <<0, 0, 0>>, <<rated_v, rated_v, rated_v>>,
          <<low - 10, low - 10, low - 10>>, <<high + 10, high + 10, high + 10>>,
          <<rated_v - dev - 10, rated_v, rated_v + dev + 10>> }
        \cup (IF tag = OnGridAsset
              THEN { <<low, low, low>>, <<high, high, high>>,
                     <<rated_v - dev, rated_v, rated_v + dev>> }
              ELSE {})

\* i_in around 1.0 A, 40 % and 110 % of flc, and around 10 % unbalance
HealthCurrents(tag) ==
    LET flc == ASSET_DB[tag].fla_rated
        low == (flc * 4) \div 10
        high == (flc * 11) \div 10
        mid == (flc \div 10) * 10
        dev == mid \div 10
    IN  { <<0, 0, 0>>, <<10, 10, 10>>, <<11, 11, 11>>, <<flc, flc, flc>>,
          <<low - 1, low - 1, low - 1>>, <<high + 1, high + 1, high + 1>>,
          <<high + 1, 10, 10>>, <<mid - dev - 1, mid, mid + dev + 1>> }
        \cup (IF tag = OnGridAsset
              THEN { <<low, low, low>>, <<high, high, high>>, <<mid - dev, mid, mid + dev>> }
              ELSE {})

HealthGrounds == { 0, 50, 51 }

ElecInit ==
    /\ heap = InitialHeap
    /\ analyzer = NoObject
    /\ calls = <<>>
    /\ \/ args \in [ fn : { "calculate_unbalance" }, values : [ 1..3 -> PhaseValues ],
                     unit : FloatUnits ]
       \/ args \in [ fn : { "electrical.app" }, r_amp : PhaseValues, s_amp : PhaseValues,
                     t_amp : PhaseValues, ir_val : IrValues, unit : FloatUnits ]
       \/ \E selected_key \in AssetTags :
             args \in [ fn : { "ElectricalEngine.analyze" }, selected_key : { selected_key },
                        x : EngineArgs(ASSETS_DB[selected_key].elec),
                        y : SecondArgs(ASSETS_DB[selected_key].elec) ]
       \/ \E tag \in AssetTags :
             args \in [ fn : { "analyze_electrical_health" },
                        v_in : HealthVoltages(tag), i_in : HealthCurrents(tag),
                        i_g : HealthGrounds, rated_v : { ASSET_DB[tag].volt_rated },
                        flc : { ASSET_DB[tag].fla_rated } ]

CallCalculateUnbalance ==
    /\ calls = <<>> /\ args.fn = "calculate_unbalance"
    /\ calls' = << [ fn |-> args.fn, ret |-> calculate_unbalance(args.values, args.unit) ] >>
    /\ UNCHANGED <<args, analyzer, heap>>

RunElectricalApp ==
    /\ calls = <<>> /\ args.fn = "electrical.app"
    /\ calls' = << [ fn |-> args.fn,
                     ret |-> electrical_app(args.r_amp, args.s_amp, args.t_amp, args.ir_val,
                                            args.unit) ] >>
    /\ UNCHANGED <<args, analyzer, heap>>

\* asset = ASSETS_DB[selected_key]; engine = ElectricalEngine(asset.elec)
NewElectricalEngine ==
    /\ analyzer = NoObject /\ args.fn = "ElectricalEngine.analyze"
    /\ LET new == ElectricalEngine_init(heap, heap.ASSETS_DB[args.selected_key].elec)
       IN  analyzer' = new.self /\ heap' = new.heap
    /\ UNCHANGED <<args, calls>>

\* engine.analyze(...): the first call on args.x, the second on args.y
CallAnalyze ==
    /\ analyzer # NoObject /\ args.fn = "ElectricalEngine.analyze" /\ Len(calls) < 2
    /\ LET a == IF calls = <<>> THEN args.x ELSE args.y
           out == ElectricalEngine_analyze(analyzer, heap, a.v_in, a.i_in, a.i_g, a.starts,
                                           a.temp, a.status)
       IN  /\ analyzer' = out.self
           /\ heap' = out.heap
           /\ calls' = Append(calls, [ fn |-> args.fn, value |-> a, ret |-> out.ret ])
    /\ UNCHANGED args

CallAnalyzeElectricalHealth ==
    /\ calls = <<>> /\ args.fn = "analyze_electrical_health"
    /\ calls' = << [ fn |-> args.fn,
                     ret |-> analyze_electrical_health(args.v_in, args.i_in, args.i_g,
                                                       args.rated_v, args.flc) ] >>
    /\ UNCHANGED <<args, analyzer, heap>>

ElecNext ==
    \/ CallCalculateUnbalance
    \/ RunElectricalApp
    \/ NewElectricalEngine
    \/ CallAnalyze
    \/ CallAnalyzeElectricalHealth

ElecSpec == ElecInit /\ [][ElecNext]_vars

\* C14: no unbalance calculation divides by zero for non-negative phase values:
\* calculate_unbalance returns 0.0 when the average is 0, ElectricalEngine.analyze
\* reports 0.0 when the average voltage or current is 0, and the form computes
\* the unbalance only when the average current is above 0
NoDivisionByZero ==
    \A k \in DOMAIN calls :
        /\ calls[k].fn = "calculate_unbalance"
           => /\ ~Raises(calls[k].ret)
              /\ np_mean(args.values, args.unit).num = 0 => calls[k].ret = Zero
        /\ calls[k].fn = "electrical.app"
           => calls[k].ret.raised = None
        /\ calls[k].fn = "ElectricalEngine.analyze"
           => /\ ~Raises(calls[k].ret[2]) /\ ~Raises(calls[k].ret[3])
              /\ Sum(calls[k].value.i_in) = 0 => calls[k].ret[2] = Zero
              /\ Sum(calls[k].value.v_in) = 0 => calls[k].ret[3] = Zero

AnalyzeCall(call) == call.fn = "ElectricalEngine.analyze"

\* the flags of a call as its arguments and the settings of the asset determine them
FlagsOf(call) ==
    analyze_flags(ASSETS_DB[args.selected_key].elec, call.value.v_in, call.value.i_in,
                  call.value.i_g, call.value.starts, call.value.temp, call.value.status)

\* C15: the flag list each analyze call returned holds, also after later calls on
\* the same engine, exactly the flags its own arguments and the fixed settings
\* give: nothing is carried over from an earlier call and no later call changes
\* it; the settings of the engine stay those of the asset
StatelessFlags ==
    \A k \in DOMAIN calls :
        AnalyzeCall(calls[k])
            => /\ heap.lists[calls[k].ret[1]] = FlagsOf(calls[k])
               /\ analyzer.s = ASSETS_DB[args.selected_key].elec

\* two calls on one engine: the first returned flags, the second returned none,
\* and the first list still holds its flags
StatelessFlagsWitness ==
    /\ Len(calls) = 2
    /\ AnalyzeCall(calls[1]) /\ AnalyzeCall(calls[2])
    /\ Len(heap.lists[calls[1].ret[1]]) >= 2
    /\ heap.lists[calls[2].ret[1]] = <<>>
    /\ calls[1].ret[1] # calls[2].ret[1]

----------------------------------------------------------------------------
(* src/modules/asset_database.py and the tables of simulasi_esa.py at run time *)

\* the keys of ASSET_DB in insertion order
AssetOrder == << "P-02", "733-P-103", "706-P-203" >>

get_asset_list(h) ==
    [ ret |-> SelectSeq(AssetOrder, LAMBDA t : t \in DOMAIN h.ASSET_DB), heap |-> h ]

\* ASSET_DB.setdefault(tag) in place of ASSET_DB.get(tag)
get_asset_details_setdefault(h, tag) ==
    IF tag \in DOMAIN h.ASSET_DB
    THEN [ ret |-> h.ASSET_DB[tag], heap |-> h ]
    ELSE [ ret |-> NoObject,
           heap |-> [ h EXCEPT !.ASSET_DB =
                          [ t \in DOMAIN @ \cup { tag } |->
                              IF t = tag THEN NoObject ELSE @[t] ] ] ]

\* ASSET_DB.get(tag): the record, or None
get_asset_details(h, tag) ==
    [ ret |-> IF tag \in DOMAIN h.ASSET_DB THEN h.ASSET_DB[tag] ELSE NoObject,
      heap |-> h ]

\* tags asked for: the known ones and two that are not in the table
AskedTags == AssetTags \cup { "P-99", "" }

AssetInit ==
    /\ heap = InitialHeap
    /\ analyzer = NoObject
    /\ calls = <<>>
    /\ args \in [ fn : { "asset_database" }, tag : AskedTags,
                  value : { 0, ISO_CLASS_II[2], 9000 } ]

CallGetAssetList ==
    /\ Len(calls) < MaxCalls
    /\ LET out == get_asset_list(heap)
       IN  /\ heap' = out.heap
           /\ calls' = Append(calls, [ fn |-> "get_asset_list", value |-> None,
                                       ret |-> out.ret ])
    /\ UNCHANGED <<args, analyzer>>

CallGetAssetDetails ==
    /\ Len(calls) < MaxCalls
    /\ LET out == get_asset_details(heap, args.tag)
       IN  /\ heap' = out.heap
           /\ calls' = Append(calls, [ fn |-> "get_asset_details", value |-> args.tag,
                                       ret |-> out.ret ])
    /\ UNCHANGED <<args, analyzer>>

\* a classifier call: MechanicalEngine.get_iso_status(value)
AssetCallClassifier ==
    /\ Len(calls) < MaxCalls
    /\ calls' = Append(calls, [ fn |-> "MechanicalEngine.get_iso_status",
                                value |-> args.value,
                                ret |-> MechanicalEngine_get_iso_status(args.value) ])
    /\ UNCHANGED <<args, analyzer, heap>>

\* a matcher call: mechanical.analyze_root_cause on the value in all directions
AssetCallMatcher ==
    /\ Len(calls) < MaxCalls
    /\ calls' = Append(calls, [ fn |-> "mechanical.analyze_root_cause",
                                value |-> args.value,
                                ret |-> mechanical_analyze_root_cause(
                                            args.value, args.value, args.value,
                                            limits_map["Class II (Medium 15-300kW)"]) ])
    /\ UNCHANGED <<args, analyzer, heap>>

\* asset = ASSETS_DB[selected_key]; engine = ElectricalEngine(asset.elec);
\* engine.analyze(...) on the rated voltage and 28.4 A with one phase lower
AssetCallEngine ==
    /\ Len(calls) < MaxCalls
    /\ \E selected_key \in DOMAIN heap.ASSETS_DB :
          LET asset == heap.ASSETS_DB[selected_key]
              new == ElectricalEngine_init(heap, asset.elec)
              a == [ v_in |-> <<asset.elec.rated_volt, asset.elec.rated_volt,
                               asset.elec.rated_volt>>,
                     i_in |-> <<284, 284, 234>>, i_g |-> 0, starts |-> 1,
                     temp |-> 650, status |-> "Running" ]
              out == ElectricalEngine_analyze(new.self, new.heap, a.v_in, a.i_in, a.i_g,
                                              a.starts, a.temp, a.status)
          IN  /\ analyzer' = out.self
              /\ heap' = out.heap
              /\ calls' = Append(calls, [ fn |-> "ElectricalEngine.analyze",
                                          value |-> selected_key, ret |-> out.ret ])
    /\ UNCHANGED args

AssetNext ==
    \/ CallGetAssetList
    \/ CallGetAssetDetails
    \/ AssetCallClassifier
    \/ AssetCallMatcher
    \/ AssetCallEngine

AssetSpec == AssetInit /\ [][AssetNext]_vars

ZoneNames == { "ZONE A", "ZONE B", "ZONE C", "ZONE D" }

----------------------------------------------------------------------------
(* The report's global_status handed on to assess_overall_health *)

\* form values in which the Driver/H and the Driven/A rows vary, the rest is 0
PipelineInputs(self) ==
    { [ k \in InputKeys |->
          IF k = "m_de_h" THEN p[1][1] ELSE IF k = "m_nde_h" THEN p[1][2]
          ELSE IF k = "p_de_a" THEN p[2][1] ELSE IF k = "p_nde_a" THEN p[2][2]
          ELSE 0 ]
      : p \in [ 1..2 -> RowPairs(self) ] }

PipelineInit ==
    /\ heap = InitialHeap
    /\ calls = <<>>
    /\ analyzer \in Analyzers
    /\ args \in [ fn : { "VibrationAnalyzer.generate_full_report" },
                  inputs : PipelineInputs(analyzer),
                  elec_status : ElecStatuses, temp_max : { 600, OVERHEAT_LIMIT + 1 },
                  physical_issues : IssueLists ]

\* assess_overall_health(report["global_status"], ..., report["causes"])
CallAssessReport ==
    /\ Len(calls) = 1 /\ ReportCall(calls[1])
    /\ calls' = Append(calls,
                       [ fn |-> "assess_overall_health",
                         ret |-> assess_overall_health(calls[1].ret.global_status,
                                                       args.elec_status, args.temp_max,
                                                       args.physical_issues,
                                                       calls[1].ret.causes) ])
    /\ UNCHANGED <<args, analyzer, heap>>

PipelineNext ==
    \/ CallGenerateFullReport
    \/ CallAssessReport

PipelineSpec == PipelineInit /\ [][PipelineNext]_vars

\* some axis average of the report is at or above limit_trip
AtOrAboveTrip ==
    /\ calls # <<>> /\ ReportCall(calls[1])
    /\ \E i \in DOMAIN calls[1].ret.dataframe :
          calls[1].ret.dataframe[i].Avr >= analyzer.limit_trip

\* C18: when an axis average is at or above limit_trip, global_status contains
\* 'ZONE D', and assess_overall_health called with that global_status returns
\* 'BAD / DANGER' whatever the electrical status, temperature and findings are
TripEscalates ==
    AtOrAboveTrip
        => /\ PyIn("ZONE D", calls[1].ret.global_status)
           /\ Len(calls) = 2 => calls[2].ret.status = "BAD / DANGER"

\* an average exactly at limit_trip and nothing else wrong: the health is BAD
TripEscalatesWitness ==
    /\ Len(calls) = 2
    /\ calls[1].ret.max_value = analyzer.limit_trip
    /\ args.elec_status = "NORMAL" /\ args.temp_max <= OVERHEAT_LIMIT
    /\ args.physical_issues = <<>>
    /\ calls[2].ret.status = "BAD / DANGER"

\* one of the three directional rules of mechanical.analyze_root_cause holds
SomeRuleFires ==
    \/ mech_rule1(args.h_val, args.v_val, args.a_val, args.warning_threshold)
    \/ mech_rule2(args.h_val, args.v_val, args.a_val, args.warning_threshold)
    \/ mech_rule3(args.h_val, args.v_val, args.a_val, args.warning_threshold)

\* C19: mechanical.analyze_root_cause returns exactly <<'Kondisi Normal'>> if and
\* only if max(h_val, v_val, a_val) < warning_threshold; otherwise it returns at
\* least one diagnosis, none of them 'Kondisi Normal', and the bearing/cavitation
\* fallback only when none of the three directional rules fired
NormalIffBelow ==
    \A k \in DOMAIN calls :
        MechCall(calls[k])
            => /\ calls[k].ret[1] = << D_NORMAL >> <=> ~PastNormal
               /\ PastNormal
                  => /\ Len(calls[k].ret[1]) >= 1
                     /\ D_NORMAL \notin Range(calls[k].ret[1])
                     /\ D_BEARING \in Range(calls[k].ret[1]) => ~SomeRuleFires

\* the highest value exactly at the threshold: not normal, and the fallback alone
NormalIffBelowWitness ==
    /\ calls # <<>>
    /\ MechCall(calls[1])
    /\ Max2(Max2(args.h_val, args.v_val), args.a_val) = args.warning_threshold
    /\ calls[1].ret[1] = << D_BEARING >>

\* C20: MechanicalEngine.analyze_root_cause emits the MISALIGNMENT tag only if an
\* Axial reading at Motor DE or Pump DE is above the warning limit; an axial
\* exceedance at Motor NDE or Pump NDE alone does not produce it
MisalignmentOnlyDriveEnd ==
    \A k \in DOMAIN calls :
        (EsaCall(calls[k]) /\ T_MISALIGNMENT \in Range(calls[k].ret))
            => Exceeds("Axial", { "Motor DE", "Pump DE" })

----------------------------------------------------------------------------
(* The temperature matcher *)

TempCall(call) == call.fn = "analyze_temperature_profile"

\* the bearing housings on the coupling side
DriveEndLocations == { "Motor DE", "Pump DE", "Pump DE Seal" }

\* the location named by one diagnosis, and the text after base_msg
DiagLoc(d) == d[2]

DiagText(d) == d[4]

\* the locations of temps above limit_warn
Overheated == { i \in DOMAIN args.temps : args.temps[i].val > args.limit_warn }

\* C21 as stated: a diagnosis 'Misalignment Coupling (TKI 1.a)' is given only to
\* a drive-end location, and only when vib_axial_high is true; 'Motor NDE' and
\* 'Pump NDE' never receive it.
MisalignmentCouplingOnlyDriveEnd ==
    \A k \in DOMAIN calls :
        TempCall(calls[k]) =>
            \A i \in DOMAIN calls[k].ret :
                DiagText(calls[k].ret[i]) = temperature_text("Motor DE", "Gesekan Logam (Scraping)", TRUE)
                    => /\ DiagLoc(calls[k].ret[i]) \in DriveEndLocations
                       /\ args.vib_axial_high

\* C22: analyze_temperature_profile returns [] exactly when no temperature is
\* strictly above limit_warn; otherwise the result has one diagnosis for each
\* overheated location and nothing else, so its length is their number.
OneDiagnosisPerOverheated ==
    \A k \in DOMAIN calls :
        TempCall(calls[k]) =>
            /\ (calls[k].ret = <<>>) <=> (Overheated = {})
            /\ Len(calls[k].ret) = Cardinality(Overheated)
            /\ \A i \in Overheated :
                  Cardinality({ j \in DOMAIN calls[k].ret :
                                  DiagLoc(calls[k].ret[j]) = args.temps[i].loc }) = 1
            /\ \A j \in DOMAIN calls[k].ret :
                  \E i \in Overheated : DiagLoc(calls[k].ret[j]) = args.temps[i].loc

\* two locations overheat with the same reading and the same cause, a third sits
\* on the limit, and the call returned two diagnoses
OneDiagnosisPerOverheatedWitness ==
    /\ calls # <<>> /\ TempCall(calls[1])
    /\ Cardinality(Overheated) = 2
    /\ \E i \in DOMAIN args.temps : args.temps[i].val = args.limit_warn
    /\ \A i, j \in Overheated : args.temps[i].val = args.temps[j].val
    /\ Len(calls[1].ret) = 2
    /\ DiagText(calls[1].ret[1]) = DiagText(calls[1].ret[2])

----------------------------------------------------------------------------
(* The electrical diagnosis *)

HealthCall(call) == call.fn = "analyze_electrical_health"

\* the ANSI texts of the conditions the arguments violate
ViolatedConditions ==
    LET v == Sum(args.v_in)
        i == Sum(args.i_in)
        v_unbal == calculate_unbalance(args.v_in, "tenth")
        i_unbal == calculate_unbalance(args.i_in, "tenth")
    IN  (IF 100 * v < 90 * args.rated_v * 3 THEN { "ANSI 27 - UNDERVOLTAGE" } ELSE {})
        \cup (IF 100 * v > 110 * args.rated_v * 3 THEN { "ANSI 59 - OVERVOLTAGE" } ELSE {})
        \cup (IF ~(v_unbal.num <= 3 * v_unbal.den) THEN { "ANSI 47 - PHASE BALANCE" } ELSE {})
        \cup (IF i > 10 * 3 /\ 100 * i < 40 * args.flc * 3
              THEN { "ANSI 37 - DRY RUN / LOW LOAD" } ELSE {})
        \cup (IF ~(100 * MaxOf(args.i_in) <= 110 * args.flc) THEN { "ANSI 51 - OVERLOAD" } ELSE {})
        \cup (IF ~(i_unbal.num <= 10 * i_unbal.den) THEN { "ANSI 46 - CURRENT UNBALANCE" } ELSE {})
        \cup (IF ~(args.i_g <= 50) THEN { "ANSI 50G - GROUND FAULT" } ELSE {})

\* C23: analyze_electrical_health returns an empty diagnosis list exactly when the
\* average voltage is within 90 %..110 % of rated_v, the voltage unbalance is at
\* most 3 %, the average current is not strictly between 1.0 A and 40 % of flc,
\* the largest phase current is at most 110 % of flc, the current unbalance is at
\* most 10 % and the ground current is at most 0.5 A; each violated condition
\* adds exactly one diagnosis with its ANSI code, and nothing else is added.
EmptyIffAllWithin ==
    \A k \in DOMAIN calls :
        HealthCall(calls[k]) =>
            LET diagnosa == calls[k].ret[1]
            IN  /\ (diagnosa = <<>>) <=> (ViolatedConditions = {})
                /\ { diagnosa[j][1] : j \in DOMAIN diagnosa } = ViolatedConditions
                /\ Len(diagnosa) = Cardinality(ViolatedConditions)

\* every reading sits on its threshold (360.0 V average, 3 % and 10 % unbalance,
\* 59.4 A largest current, 0.5 A to ground) and the call returned no diagnosis
EmptyIffAllWithinWitness ==
    /\ calls # <<>> /\ HealthCall(calls[1])
    /\ 100 * Sum(args.v_in) = 90 * args.rated_v * 3
    /\ 100 * MaxOf(args.i_in) = 110 * args.flc
    /\ calculate_unbalance(args.i_in, "tenth").num = 10 * calculate_unbalance(args.i_in, "tenth").den
    /\ args.i_g = 50
    /\ calls[1].ret[1] = <<>>

----------------------------------------------------------------------------
(* The flags of one relay scan *)

\* how many flags of the list carry one of the ANSI codes
CountOf(flags, codes) == Cardinality({ j \in DOMAIN flags : flags[j][2] \in codes })

\* C24: in the flags of one ElectricalEngine.analyze call at most one of 50LR, 51
\* and 37 appears, 50LR only when status is 'Starting' and 51 or 37 only when it
\* is not; at most one of 27 and 59 appears; and 46 appears at most once, as TRIP
\* or as ALARM.
MagnitudeFlagsExclusive ==
    \A k \in DOMAIN calls :
        AnalyzeCall(calls[k]) =>
            LET flags == heap.lists[calls[k].ret[1]]
                is_starting == calls[k].value.status = "Starting"
            IN  /\ CountOf(flags, { ANSI.LR_50LR, ANSI.TOC_51, ANSI.UC_37 }) <= 1
                /\ CountOf(flags, { ANSI.LR_50LR }) = 1 => is_starting
                /\ CountOf(flags, { ANSI.TOC_51, ANSI.UC_37 }) = 1 => ~is_starting
                /\ CountOf(flags, { ANSI.UV_27, ANSI.OV_59 }) <= 1
                /\ CountOf(flags, { ANSI.UB_46 }) <= 1

\* a running motor with one phase above 110 % of FLC and an average between 1.0 A
\* and 40 % of FLC, an unbalance above both limits and an average voltage below
\* 90 %: the call raised 51 without 37, 46 once, and 27
MagnitudeFlagsExclusiveWitness ==
    \E k \in DOMAIN calls :
        /\ AnalyzeCall(calls[k])
        /\ calls[k].value.status = "Running"
        /\ 100 * MaxOf(calls[k].value.i_in) > 110 * analyzer.s.flc_amps
        /\ 100 * Sum(calls[k].value.i_in) < 40 * analyzer.s.flc_amps * 3
        /\ Sum(calls[k].value.i_in) > 10 * 3
        /\ LET flags == heap.lists[calls[k].ret[1]]
           IN  /\ CountOf(flags, { ANSI.TOC_51 }) = 1
               /\ CountOf(flags, { ANSI.UC_37 }) = 0
               /\ CountOf(flags, { ANSI.UB_46 }) = 1
               /\ CountOf(flags, { ANSI.UV_27 }) = 1

----------------------------------------------------------------------------
(* src/simulasi_esa.py: CommissioningEngine and the commissioning form.  Lengths
   in hundredths of a millimetre, the step of the form.  A message is the parts
   of its f-string, the fixed text first; the texts of the source that begin
   with the cross mark are those of CrossMarked *)

MAX_SOFT_FOOT == 5

ALIGNMENT_TOLERANCE == 5

M_SOFT_FOOT == "REJECT: Soft Foot"

M_ALIGNMENT == "REJECT: Alignment Offset"

M_ACCEPTED == "ACCEPTED: Installation within API 686 tolerances."

M_GROUT == "Grouting check pending."

M_PIPE == "Pipe strain check pending."

CrossMarked == { M_SOFT_FOOT, M_ALIGNMENT, M_GROUT, M_PIPE }

\* check_installation with max(v_offset, h_offset) for max(abs(v_offset), abs(h_offset))
check_installation_no_abs(soft_foot, v_offset, h_offset) ==
    LET max_align == Max2(v_offset, h_offset)
        issues ==
            (IF soft_foot > MAX_SOFT_FOOT
             THEN << <<M_SOFT_FOOT, soft_foot, MAX_SOFT_FOOT>> >> ELSE <<>>)
            \o (IF max_align > ALIGNMENT_TOLERANCE
                THEN << <<M_ALIGNMENT, max_align, ALIGNMENT_TOLERANCE>> >> ELSE <<>>)
    IN  IF issues = <<>> THEN << <<M_ACCEPTED>> >> ELSE issues

check_installation(soft_foot, v_offset, h_offset) ==
    LET max_align == Max2(Abs(v_offset), Abs(h_offset))
        issues ==
            (IF soft_foot > MAX_SOFT_FOOT
             THEN << <<M_SOFT_FOOT, soft_foot, MAX_SOFT_FOOT>> >> ELSE <<>>)
            \o (IF max_align > ALIGNMENT_TOLERANCE
                THEN << <<M_ALIGNMENT, max_align, ALIGNMENT_TOLERANCE>> >> ELSE <<>>)
    IN  IF issues = <<>> THEN << <<M_ACCEPTED>> >> ELSE issues

\* the values of the form: st.number_input(label, min, max, value, step)
SoftFootValues ==
    { 0, 100 } \cup { MAX_SOFT_FOOT + d : d \in -Delta..Delta }

OffsetValues ==
    { 0, -100, 100 }
    \cup { ALIGNMENT_TOLERANCE + d : d \in -Delta..Delta }
    \cup { -ALIGNMENT_TOLERANCE + d : d \in -Delta..Delta }

CommInit ==
    /\ heap = InitialHeap
    /\ analyzer = NoObject
    /\ calls = <<>>
    /\ args \in [ fn : { "CommissioningEngine.check_installation" },
                  soft_foot_val : SoftFootValues, v_off : OffsetValues, h_off : OffsetValues,
                  chk_grout : BOOLEAN, chk_pipe : BOOLEAN ]

\* `if submit_comm:`: ret is the list as check_installation returned it, comm_res
\* the same list after the two appends, banner the header then shown
SubmitCommissioning ==
    /\ calls = <<>>
    /\ LET ret == check_installation(args.soft_foot_val, args.v_off, args.h_off)
           comm_res == ret \o (IF ~args.chk_grout THEN << <<M_GROUT>> >> ELSE <<>>)
                           \o (IF ~args.chk_pipe THEN << <<M_PIPE>> >> ELSE <<>>)
           banner == IF \E j \in DOMAIN comm_res : comm_res[j][1] \in CrossMarked
                     THEN "COMMISSIONING FAILED" ELSE "COMMISSIONING PASSED"
       IN  calls' = << [ fn |-> args.fn, ret |-> ret, comm_res |-> comm_res,
                         banner |-> banner ] >>
    /\ UNCHANGED <<args, analyzer, heap>>

CommNext == SubmitCommissioning

CommSpec == CommInit /\ [][CommNext]_vars

\* the checks the values of the form violate
SoftFootViolated == ~(args.soft_foot_val <= 5)

AlignmentViolated == ~(Max2(Abs(args.v_off), Abs(args.h_off)) <= 5)

\* C25: check_installation returns exactly the one ACCEPTED message if and only
\* if soft_foot <= 0.05 and max(|v_offset|, |h_offset|) <= 0.05; otherwise it
\* returns only REJECT messages, one for each violated check; the result is never
\* empty and never holds ACCEPTED together with a REJECT.
AcceptedIffWithinTolerance ==
    \A k \in DOMAIN calls :
        LET ret == calls[k].ret
            texts == { ret[j][1] : j \in DOMAIN ret }
        IN  /\ ret # <<>>
            /\ (ret = << <<M_ACCEPTED>> >>) <=> (~SoftFootViolated /\ ~AlignmentViolated)
            /\ (SoftFootViolated \/ AlignmentViolated)
                  => /\ texts = (IF SoftFootViolated THEN { M_SOFT_FOOT } ELSE {})
                                \cup (IF AlignmentViolated THEN { M_ALIGNMENT } ELSE {})
                     /\ Len(ret) = Cardinality(texts)
            /\ ~(M_ACCEPTED \in texts /\ texts \cap { M_SOFT_FOOT, M_ALIGNMENT } # {})

\* the soft foot is on its limit, the vertical offset is beyond the tolerance on
\* the negative side only, and the call returned the one alignment REJECT
AcceptedIffWithinToleranceWitness ==
    /\ calls # <<>>
    /\ args.soft_foot_val = 5
    /\ args.v_off < -5 /\ args.h_off = 5
    /\ Len(calls[1].ret) = 1
    /\ calls[1].ret[1][1] = M_ALIGNMENT

====
